---- MODULE Spec2Model ----
(***************************************************************************)
(* Model of floccus_cli: the Xbel bookmark document (floccus-xbel), its    *)
(* address resolution, and the add / remove handlers of floccus-cli.       *)
(*                                                                         *)
(* A string is a sequence of one-character strings, so that parsing an id, *)
(* printing an id and splitting a title path are computed, not assumed.    *)
(* A reference to a sibling list (&mut Vec<XbelItem>) is the sequence of   *)
(* 0-based child indexes leading from the top-level list to the folder     *)
(* that owns the list; <<>> is the top-level list itself.                  *)
(***************************************************************************)
EXTENDS Integers, Sequences, FiniteSets

VARIABLES file, loaded, xbel, op, resolved, bookmark, res, written, pushed,
          buffer, iterator, nesting, runs, version, parsed

vars == <<file, loaded, xbel, op, resolved, bookmark, res, written, pushed,
          buffer, iterator, nesting, runs, version, parsed>>

(***************************************************************************)
(* Bounds of the model.                                                    *)
(***************************************************************************)
\* Largest number of items (folders and bookmarks) of a loaded document.
MaxNodes == 3
\* Largest number of segments of a title path given to add / rm.
MaxSegs == 2

\* Calls of next() made on an iterator after it has returned None.
MaxExtraCalls == 2

\* Commands run after the first one on the same file.
MaxRuns == 2

\* Longest address string body given to Under::from_str.
MaxAddrLen == 2

(***************************************************************************)
(* Strings, u64 parsing and printing.                                      *)
(***************************************************************************)
Digits == <<"0", "1", "2", "3", "4", "5", "6", "7", "8", "9">>

IsDigit(c) == \E d \in 1..Len(Digits) : Digits[d] = c

DigitVal(c) == (CHOOSE d \in 1..Len(Digits) : Digits[d] = c) - 1

\* Value of a sequence of decimal digits, most significant first.
RECURSIVE DigitsVal(_)
DigitsVal(s) ==
    IF s = <<>> THEN 0
    ELSE DigitsVal(SubSeq(s, 1, Len(s) - 1)) * 10 + DigitVal(s[Len(s)])

\* The failure of str::parse::<u64>.
ParseErr == -1

\* str::parse::<u64>: an optional "+" then one or more decimal digits.
ParseU64(s) ==
    LET body == IF s # <<>> /\ Head(s) = "+" THEN Tail(s) ELSE s
    IN  IF body # <<>> /\ \A k \in 1..Len(body) : IsDigit(body[k])
        THEN DigitsVal(body)
        ELSE ParseErr

\* u64::to_string: decimal digits, no sign, no leading zero.
RECURSIVE U64ToString(_)
U64ToString(n) ==
    IF n < 10 THEN <<Digits[n + 1]>>
    ELSE U64ToString(n \div 10) \o <<Digits[(n % 10) + 1]>>

(***************************************************************************)
(* The document: Title, Bookmark, Folder, XbelItem, Xbel.items.            *)
(***************************************************************************)
None == [some |-> FALSE]

\* The unwinding of a panic (Result::unwrap on an Err), in the place of the
\* value the call would have returned.
Panicked == [some |-> FALSE, panic |-> "unwrap"]

Bookmark(id, url, title) ==
    [kind |-> "Bookmark", href |-> url, id |-> id, title |-> title]

Folder(id, title, items) ==
    [kind |-> "Folder", id |-> id, title |-> title, items |-> items]

IsFolder(item) == item.kind = "Folder"

get_title(item) == item.title

get_id(item) == item.id

\* Xbel::new(None): the empty document.
XbelNew == <<>>

\* The sibling list a reference designates.
RECURSIVE ItemsAt(_, _)
ItemsAt(items, ref) ==
    IF ref = <<>> THEN items
    ELSE ItemsAt(items[Head(ref) + 1].items, Tail(ref))

\* The document after the sibling list behind a reference is replaced.
RECURSIVE SetItemsAt(_, _, _)
SetItemsAt(items, ref, new) ==
    IF ref = <<>> THEN new
    ELSE [items EXCEPT ![Head(ref) + 1] =
             [@ EXCEPT !.items = SetItemsAt(@, Tail(ref), new)]]

(***************************************************************************)
(* XbelIterator: the flat depth-first traversal.                           *)
(***************************************************************************)
\* The children put at the back of the deque.
PushBack(to_process, items) == to_process \o items

\* VecDeque::push_front of each element of items, last element first.
PushFrontRev(to_process, items) == items \o to_process

\* The items XbelIterator::next yields until it returns None, given the
\* deque left by the previous calls.
RECURSIVE XbelIteratorRun(_)
XbelIteratorRun(to_process) ==
    IF to_process = <<>> THEN <<>>
    ELSE LET xbel_item == Head(to_process)
             rest == Tail(to_process)
         IN  <<xbel_item>> \o
             XbelIteratorRun(IF IsFolder(xbel_item)
                             THEN PushFrontRev(rest, xbel_item.items)
                             ELSE rest)

\* XbelIterator::new(xbel) consumed to its end.
XbelIterator(items) == XbelIteratorRun(items)

\* XbelIterator::new and XbelNestingIterator::new: the struct, with the
\* values next() has returned so far.
IteratorNew == [initial |-> TRUE, to_process |-> <<>>, returned |-> <<>>]

\* A call of next that does not queue the children of a Folder.
XbelIteratorNextTopLevel(it, items) ==
    LET to_process == IF it.initial THEN it.to_process \o items
                      ELSE it.to_process
    IN  IF to_process = <<>>
        THEN [initial |-> FALSE, to_process |-> <<>>,
              returned |-> Append(it.returned, None)]
        ELSE [initial |-> FALSE, to_process |-> Tail(to_process),
              returned |-> Append(it.returned, Head(to_process))]

\* One call of XbelIterator::next on the iterator it over items.
XbelIteratorNext(it, items) ==
    LET to_process == IF it.initial THEN it.to_process \o items
                      ELSE it.to_process
    IN  IF to_process = <<>>
        THEN [initial |-> FALSE, to_process |-> <<>>,
              returned |-> Append(it.returned, None)]
        ELSE LET xbel_item == Head(to_process)
             IN  [initial |-> FALSE,
                  to_process |-> IF IsFolder(xbel_item)
                                 THEN PushFrontRev(Tail(to_process),
                                                   xbel_item.items)
                                 ELSE Tail(to_process),
                  returned |-> Append(it.returned, xbel_item)]

\* XbelItemOrEnd.
Item(x) == [tag |-> "Item", item |-> x]

End(id) == [tag |-> "End", id |-> id]

\* A call of XbelNestingIterator::next that never clears the initial flag.
XbelNestingIteratorNextRefills(it, items) ==
    LET to_process ==
          IF it.to_process = <<>>
          THEN [k \in 1..Len(items) |-> Item(items[k])]
          ELSE it.to_process
    IN  IF to_process = <<>>
        THEN [initial |-> TRUE, to_process |-> <<>>,
              returned |-> Append(it.returned, None)]
        ELSE LET xbel_iter_item == Head(to_process)
                 f == xbel_iter_item.item
             IN  [initial |-> TRUE,
                  to_process |->
                    IF xbel_iter_item.tag = "Item" /\ IsFolder(f)
                    THEN PushFrontRev(
                             <<End(f.id)>> \o Tail(to_process),
                             [k \in 1..Len(f.items) |-> Item(f.items[k])])
                    ELSE Tail(to_process),
                  returned |-> Append(it.returned, xbel_iter_item)]

\* A call of XbelNestingIterator::next that pushes no End marker for a
\* Folder without children.
XbelNestingIteratorNextNoEmptyEnd(it, items) ==
    LET to_process ==
          IF it.initial
          THEN it.to_process \o [k \in 1..Len(items) |-> Item(items[k])]
          ELSE it.to_process
    IN  IF to_process = <<>>
        THEN [initial |-> FALSE, to_process |-> <<>>,
              returned |-> Append(it.returned, None)]
        ELSE LET xbel_iter_item == Head(to_process)
                 f == xbel_iter_item.item
             IN  [initial |-> FALSE,
                  to_process |->
                    IF xbel_iter_item.tag = "Item" /\ IsFolder(f)
                       /\ f.items # <<>>
                    THEN PushFrontRev(
                             <<End(f.id)>> \o Tail(to_process),
                             [k \in 1..Len(f.items) |-> Item(f.items[k])])
                    ELSE Tail(to_process),
                  returned |-> Append(it.returned, xbel_iter_item)]

\* One call of XbelNestingIterator::next on the iterator it over items.
XbelNestingIteratorNext(it, items) ==
    LET to_process ==
          IF it.initial
          THEN it.to_process \o [k \in 1..Len(items) |-> Item(items[k])]
          ELSE it.to_process
    IN  IF to_process = <<>>
        THEN [initial |-> FALSE, to_process |-> <<>>,
              returned |-> Append(it.returned, None)]
        ELSE LET xbel_iter_item == Head(to_process)
                 f == xbel_iter_item.item
             IN  [initial |-> FALSE,
                  to_process |->
                    IF xbel_iter_item.tag = "Item" /\ IsFolder(f)
                    THEN PushFrontRev(
                             <<End(f.id)>> \o Tail(to_process),
                             [k \in 1..Len(f.items) |-> Item(f.items[k])])
                    ELSE Tail(to_process),
                  returned |-> Append(it.returned, xbel_iter_item)]

\* The fold step without the comparison: the last id wins.
HighestStepLast(acc, x) == ParseU64(get_id(x))

\* The closure of the fold of get_highest_id; the unwrap of a failed parse
\* unwinds the fold, which is carried as ParseErr to the caller.
HighestStep(acc, x) ==
    LET id == ParseU64(get_id(x))
    IN  IF acc = ParseErr \/ id = ParseErr THEN ParseErr
        ELSE IF id > acc THEN id ELSE acc

\* Iterator::fold with the closure of get_highest_id.
RECURSIVE Fold(_, _)
Fold(acc, s) ==
    IF s = <<>> THEN acc ELSE Fold(HighestStep(acc, Head(s)), Tail(s))

\* Xbel::get_highest_id.
get_highest_id(items) == Fold(0, XbelIterator(items))

\* new_bookmark that mints the number of items plus one.
new_bookmark_by_count(items, url, title) ==
    LET highest_id == get_highest_id(items)
    IN  IF highest_id = ParseErr THEN Panicked
        ELSE Bookmark(U64ToString(Len(XbelIterator(items)) + 1), url, title)

\* Xbel::new_bookmark.
new_bookmark(items, url, title) ==
    LET highest_id == get_highest_id(items)
    IN  IF highest_id = ParseErr THEN Panicked
        ELSE Bookmark(U64ToString(highest_id + 1), url, title)

(***************************************************************************)
(* Xbel::to_string: the events handed to the quick_xml writer, between the *)
(* strings pushed around them.  The indentation the writer adds is left    *)
(* out.                                                                    *)
(***************************************************************************)
EventComment(text) == [ev |-> "Comment", text |-> text]

EventText(text) == [ev |-> "Text", text |-> text]

EventStart(name, attributes) ==
    [ev |-> "Start", name |-> name, attributes |-> attributes]

EventEnd(name) == [ev |-> "End", name |-> name]

\* String::push_str of a constant.
PushStr(text) == [ev |-> "Str", text |-> text]

XML_HEADER == "<?xml version=1.0 encoding=UTF-8?><!DOCTYPE xbel ...>"

\* The value of the version attribute in XBEL_START, and of Xbel::new.
XBEL_VERSION == "1.0"

XBEL_START == <<"<xbel version=", XBEL_VERSION, ">">>

XBEL_END == "</xbel>"

\* format!("- highestId :{}: for Floccus bookmark sync browser extension ").
HighestIdComment(n) ==
    <<"- highestId :", U64ToString(n),
      ": for Floccus bookmark sync browser extension ">>

\* A writer that closes the folder element before writing the children.
RECURSIVE write_xbel_items_closing_early(_)
write_xbel_items_closing_early(items) ==
    IF items = <<>> THEN <<>>
    ELSE LET item == Head(items)
             events ==
               IF IsFolder(item)
               THEN <<EventStart("folder", <<(<<"id", item.id>>)>>),
                      EventStart("title", <<>>),
                      EventText(item.title),
                      EventEnd("title"),
                      EventEnd("folder")>>
                    \o write_xbel_items_closing_early(item.items)
               ELSE <<EventStart("bookmark",
                                 <<(<<"href", item.href>>), <<"id", item.id>>>>),
                      EventStart("title", <<>>),
                      EventText(item.title),
                      EventEnd("title"),
                      EventEnd("bookmark")>>
         IN  events \o write_xbel_items_closing_early(Tail(items))

\* write_xbel_item on each item of a list, in order.
RECURSIVE write_xbel_items(_)
write_xbel_items(items) ==
    IF items = <<>> THEN <<>>
    ELSE LET item == Head(items)
             events ==
               IF IsFolder(item)
               THEN <<EventStart("folder", <<(<<"id", item.id>>)>>),
                      EventStart("title", <<>>),
                      EventText(item.title),
                      EventEnd("title")>>
                    \o write_xbel_items(item.items)
                    \o <<EventEnd("folder")>>
               ELSE <<EventStart("bookmark",
                                 <<(<<"href", item.href>>), <<"id", item.id>>>>),
                      EventStart("title", <<>>),
                      EventText(item.title),
                      EventEnd("title"),
                      EventEnd("bookmark")>>
         IN  events \o write_xbel_items(Tail(items))

\* write_xbel_item.
write_xbel_item(item) == write_xbel_items(<<item>>)

\* A to_string whose comment carries the highest id of the top-level items.
to_string_top_level(items) ==
    LET top == [k \in 1..Len(items) |->
                   IF IsFolder(items[k]) THEN [items[k] EXCEPT !.items = <<>>]
                   ELSE items[k]]
    IN  <<PushStr(XML_HEADER), PushStr(XBEL_START),
          EventComment(HighestIdComment(get_highest_id(top))),
          EventText(<<"\n", "\n">>)>>
        \o write_xbel_items(items)
        \o <<PushStr(XBEL_END)>>

\* Xbel::to_string.
to_string(items) ==
    LET highest_id == get_highest_id(items)
    IN  IF highest_id = ParseErr THEN Panicked
        ELSE <<PushStr(XML_HEADER), PushStr(XBEL_START),
               EventComment(HighestIdComment(highest_id)),
               EventText(<<"\n", "\n">>)>>
             \o write_xbel_items(items)
             \o <<PushStr(XBEL_END)>>

(***************************************************************************)
(* Reading a document back: quick_xml::de::from_reader driven by the serde *)
(* names of Xbel, Folder, Bookmark and Title, on the events of a file.     *)
(***************************************************************************)
\* The value of the named attribute of a start tag; String::default() when
\* the tag has no such attribute (serde(default)).
Attribute(event, name) ==
    LET at == {k \in 1..Len(event.attributes) : event.attributes[k][1] = name}
    IN  IF at = {} THEN <<>> ELSE event.attributes[CHOOSE k \in at : TRUE][2]

\* The event is the start tag of the named element.
IsStartOf(event, name) == event.ev = "Start" /\ event.name = name

\* The "$value" of an element: the folder and bookmark children read from
\* the events up to the end tag of the element, and the events after them.
\* Comments, the strings around the document and the text between
\* elements are passed over; "title" is the child element after the start
\* tag, "$text" its text.
RECURSIVE ParseItems(_)
ParseItems(events) ==
    IF events = <<>> THEN [items |-> <<>>, rest |-> <<>>]
    ELSE LET e == Head(events)
         IN  IF IsStartOf(e, "bookmark")
             THEN LET after == ParseItems(SubSeq(events, 6, Len(events)))
                  IN  [items |-> <<Bookmark(Attribute(e, "id"),
                                            Attribute(e, "href"),
                                            events[3].text)>> \o after.items,
                       rest |-> after.rest]
             ELSE IF IsStartOf(e, "folder")
             THEN LET inner == ParseItems(SubSeq(events, 5, Len(events)))
                      after == ParseItems(Tail(inner.rest))
                  IN  [items |-> <<Folder(Attribute(e, "id"), events[3].text,
                                          inner.items)>> \o after.items,
                       rest |-> after.rest]
             ELSE IF e.ev = "End"
             THEN [items |-> <<>>, rest |-> events]
             ELSE ParseItems(Tail(events))

\* The "@version" of the xbel start tag of a file written by to_string.
ParseVersion(text) == text[2].text[2]

\* Xbel read from the text of a file.
from_str(text) ==
    [version |-> ParseVersion(text), items |-> ParseItems(text).items]

(***************************************************************************)
(* Xbel::get_items_mut: address resolution.                                *)
(***************************************************************************)
Some(item_index, ref) == [some |-> TRUE, index |-> item_index, ref |-> ref]

\* find_map returning the 1-based place of the element.
FindIndexOneBased(hits) ==
    IF \E k \in 1..Len(hits) : hits[k]
    THEN CHOOSE k \in 1..Len(hits) :
             hits[k] /\ \A j \in 1..(k - 1) : ~hits[j]
    ELSE -1

\* Iterator::enumerate().find_map: the 0-based index of the first element
\* of hits that is TRUE, or -1; hits[k] tells whether the closure returns
\* Some for element k.
FindIndex(hits) ==
    IF \E k \in 1..Len(hits) : hits[k]
    THEN (CHOOSE k \in 1..Len(hits) :
              hits[k] /\ \A j \in 1..(k - 1) : ~hits[j]) - 1
    ELSE -1

\* The references pushed at the back of to_process: the child list of every
\* Folder of the list behind ref, left to right.
RECURSIVE FolderRefs(_, _, _)
FolderRefs(items, ref, k) ==
    IF k > Len(items) THEN <<>>
    ELSE (IF IsFolder(items[k]) THEN <<ref \o <<k - 1>>>> ELSE <<>>)
         \o FolderRefs(items, ref, k + 1)

\* A depth-first search for the id: an item, then its descendants, then its
\* following sibling.
RECURSIVE DfsFind(_, _, _, _)
DfsFind(root, ref, k, id) ==
    LET items == ItemsAt(root, ref)
    IN  IF k > Len(items) THEN None
        ELSE IF ParseU64(get_id(items[k])) = id THEN Some(k - 1, ref)
        ELSE LET below == IF IsFolder(items[k])
                          THEN DfsFind(root, ref \o <<k - 1>>, 1, id)
                          ELSE None
             IN  IF below.some THEN below ELSE DfsFind(root, ref, k + 1, id)

GetItemsMutIdDfs(root, to_process, id) == DfsFind(root, <<>>, 1, id)

\* The while loop of the XbelPath::Id arm; find_map stops at the first
\* match, so the unwrap panics on a malformed id met before it.
RECURSIVE GetItemsMutId(_, _, _)
GetItemsMutId(root, to_process, id) ==
    IF to_process = <<>> THEN None
    ELSE LET ref == Head(to_process)
             items == ItemsAt(root, ref)
             found == FindIndex([k \in 1..Len(items) |->
                                    ParseU64(get_id(items[k])) = id])
             unwrap == FindIndex([k \in 1..Len(items) |->
                                     ParseU64(get_id(items[k])) = ParseErr])
         IN  IF unwrap >= 0 /\ (found < 0 \/ unwrap < found) THEN Panicked
             ELSE IF found >= 0 THEN Some(found, ref)
             ELSE GetItemsMutId(root,
                                Tail(to_process) \o FolderRefs(items, ref, 1),
                                id)

\* str::split('/') collected: the segments between the separators; a string
\* without separator is one segment, the empty string included.
RECURSIVE Split(_, _)
Split(s, cur) ==
    IF s = <<>> THEN <<cur>>
    ELSE IF Head(s) = "/" THEN <<cur>> \o Split(Tail(s), <<>>)
    ELSE Split(Tail(s), cur \o <<Head(s)>>)

\* The while loop of the XbelPath::Path arm.
RECURSIVE GetItemsMutPath(_, _, _, _)
GetItemsMutPath(root, to_process, path_split, path_split_index) ==
    IF to_process = <<>> THEN None
    ELSE LET ref == Head(to_process)
             items == ItemsAt(root, ref)
             found == FindIndex([k \in 1..Len(items) |->
                          get_title(items[k]) = path_split[path_split_index + 1]])
             more == Tail(to_process) \o FolderRefs(items, ref, 1)
         IN  IF found >= 0 /\ path_split_index = Len(path_split) - 1
             THEN Some(found, ref)
             ELSE GetItemsMutPath(root, more, path_split,
                                  IF found >= 0 THEN path_split_index + 1
                                  ELSE path_split_index)

\* The values path_split_index has at path_split[path_split_index], one for
\* each turn of the while loop of the XbelPath::Path arm.
RECURSIVE PathSplitIndexes(_, _, _, _)
PathSplitIndexes(root, to_process, path_split, path_split_index) ==
    IF to_process = <<>> THEN <<>>
    ELSE LET ref == Head(to_process)
             items == ItemsAt(root, ref)
             found == FindIndex([k \in 1..Len(items) |->
                          path_split_index < Len(path_split)
                          /\ get_title(items[k]) = path_split[path_split_index + 1]])
             more == Tail(to_process) \o FolderRefs(items, ref, 1)
         IN  <<path_split_index>> \o
             (IF found >= 0 /\ path_split_index = Len(path_split) - 1
              THEN <<>>
              ELSE PathSplitIndexes(root, more, path_split,
                                    IF found >= 0 THEN path_split_index + 1
                                    ELSE path_split_index))

\* XbelPath.
XbelPathRoot == [kind |-> "Root"]

XbelPathId(id) == [kind |-> "Id", id |-> id]

XbelPathPath(s) == [kind |-> "Path", s |-> s]

\* get_items_mut with a Root arm that wants a first item.
get_items_mut_first_item(root, path) ==
    CASE path.kind = "Root" -> IF root = <<>> THEN None ELSE Some(0, <<>>)
      [] path.kind = "Id" -> GetItemsMutId(root, <<(<<>>)>>, path.id)
      [] path.kind = "Path" -> GetItemsMutPath(root, <<(<<>>)>>, Split(path.s, <<>>), 0)

\* Xbel::get_items_mut.
get_items_mut(root, path) ==
    CASE path.kind = "Root" -> Some(0, <<>>)
      [] path.kind = "Id" -> GetItemsMutId(root, <<(<<>>)>>, path.id)
      [] path.kind = "Path" -> GetItemsMutPath(root, <<(<<>>)>>, Split(path.s, <<>>), 0)

(***************************************************************************)
(* floccus-cli: the add and rm handlers.                                   *)
(***************************************************************************)
\* Under, the address given on the command line.
UnderRoot == [kind |-> "Root"]

UnderId(id, placement) == [kind |-> "Id", id |-> id, placement |-> placement]

UnderFolder(p) == [kind |-> "Folder", p |-> p]

Placement == {"Before", "After", "InFolderPrepend", "InFolderAppend"}

PLACEMENT_AFTER_PREFIX == <<"a", "f", "t", "e", "r", "=">>

PLACEMENT_BEFORE_PREFIX == <<"b", "e", "f", "o", "r", "e", "=">>

PLACEMENT_APPEND_PREFIX == <<"a", "p", "p", "e", "n", "d", "=">>

PLACEMENT_PREPEND_PREFIX == <<"p", "r", "e", "p", "e", "n", "d", "=">>

RootString == <<"r", "o", "o", "t">>

HasPrefix(s, prefix) ==
    Len(s) >= Len(prefix) /\ SubSeq(s, 1, Len(prefix)) = prefix

\* str::strip_prefix on a string that has the prefix.
StripPrefix(s, prefix) == SubSeq(s, Len(prefix) + 1, Len(s))

\* Under::from_str that keeps the stripped remainder as the title path.
UnderFromStrRem(s) ==
    IF s = RootString THEN UnderRoot
    ELSE LET stripped ==
               IF HasPrefix(s, PLACEMENT_AFTER_PREFIX)
               THEN [rem |-> StripPrefix(s, PLACEMENT_AFTER_PREFIX),
                     placement |-> "After"]
               ELSE IF HasPrefix(s, PLACEMENT_BEFORE_PREFIX)
               THEN [rem |-> StripPrefix(s, PLACEMENT_BEFORE_PREFIX),
                     placement |-> "Before"]
               ELSE IF HasPrefix(s, PLACEMENT_APPEND_PREFIX)
               THEN [rem |-> StripPrefix(s, PLACEMENT_APPEND_PREFIX),
                     placement |-> "InFolderAppend"]
               ELSE IF HasPrefix(s, PLACEMENT_PREPEND_PREFIX)
               THEN [rem |-> StripPrefix(s, PLACEMENT_PREPEND_PREFIX),
                     placement |-> "InFolderPrepend"]
               ELSE [rem |-> s, placement |-> "InFolderAppend"]
             s_id == ParseU64(stripped.rem)
         IN  IF s_id # ParseErr THEN UnderId(s_id, stripped.placement)
             ELSE UnderFolder(stripped.rem)

\* Under::from_str.
UnderFromStr(s) ==
    IF s = RootString THEN UnderRoot
    ELSE LET stripped ==
               IF HasPrefix(s, PLACEMENT_AFTER_PREFIX)
               THEN [rem |-> StripPrefix(s, PLACEMENT_AFTER_PREFIX),
                     placement |-> "After"]
               ELSE IF HasPrefix(s, PLACEMENT_BEFORE_PREFIX)
               THEN [rem |-> StripPrefix(s, PLACEMENT_BEFORE_PREFIX),
                     placement |-> "Before"]
               ELSE IF HasPrefix(s, PLACEMENT_APPEND_PREFIX)
               THEN [rem |-> StripPrefix(s, PLACEMENT_APPEND_PREFIX),
                     placement |-> "InFolderAppend"]
               ELSE IF HasPrefix(s, PLACEMENT_PREPEND_PREFIX)
               THEN [rem |-> StripPrefix(s, PLACEMENT_PREPEND_PREFIX),
                     placement |-> "InFolderPrepend"]
               ELSE [rem |-> s, placement |-> "InFolderAppend"]
             s_id == ParseU64(stripped.rem)
         IN  IF s_id # ParseErr THEN UnderId(s_id, stripped.placement)
             ELSE UnderFolder(s)

\* impl From<&Under> for XbelPath.
XbelPathFrom(under) ==
    CASE under.kind = "Root" -> XbelPathRoot
      [] under.kind = "Id" -> XbelPathId(under.id)
      [] under.kind = "Folder" -> XbelPathPath(under.p)

\* Vec::insert at a 0-based index.
VecInsert(items, index, x) ==
    SubSeq(items, 1, index) \o <<x>> \o SubSeq(items, index + 1, Len(items))

\* Vec::push.
VecPush(items, x) == Append(items, x)

\* Vec::swap_remove at a 0-based index: the last element takes the place
\* of the removed one.
VecSwapRemove(items, index) ==
    IF index + 1 = Len(items) THEN SubSeq(items, 1, index)
    ELSE SubSeq(items, 1, index) \o <<items[Len(items)]>>
             \o SubSeq(items, index + 2, Len(items) - 1)

\* Vec::remove at a 0-based index.
VecRemove(items, index) ==
    SubSeq(items, 1, index) \o SubSeq(items, index + 2, Len(items))

Ok == [err |-> "", what |-> <<>>]

Err(name, what) == [err |-> name, what |-> what]

Outcome(result, root) == [res |-> result, xbel |-> root]

\* The variants of BookmarkAddError.
BookmarkAddError ==
    {"PushWithoutUrl", "XbelReadError", "XbelPathNotFound", "NotaFolder",
     "GitError"}

\* The variants of BookmarkRemoveError.
BookmarkRemoveError ==
    {"PushWithoutUrl", "XbelReadError", "XbelPathNotFound", "GitError"}

\* The Root arm inserting at the resolved index.
AddRootAtIndex(root, item_index, ref, new) ==
    Outcome(Ok, SetItemsAt(root, ref,
                           VecInsert(ItemsAt(root, ref), item_index, new)))

\* XbelPath::Root arm of bookmark_add: items.push(bookmark).
AddRoot(root, item_index, ref, new) ==
    Outcome(Ok, SetItemsAt(root, ref, VecPush(ItemsAt(root, ref), new)))

\* Placement::Before: items.insert(item_index, bookmark).
AddBefore(root, item_index, ref, new) ==
    Outcome(Ok, SetItemsAt(root, ref,
                           VecInsert(ItemsAt(root, ref), item_index, new)))

\* Placement::After inserting at the resolved index.
AddAfterAtIndex(root, item_index, ref, new) ==
    Outcome(Ok, SetItemsAt(root, ref,
                           VecInsert(ItemsAt(root, ref), item_index, new)))

\* Placement::After: items.insert(item_index.saturating_add(1), bookmark).
AddAfter(root, item_index, ref, new) ==
    Outcome(Ok, SetItemsAt(root, ref,
                           VecInsert(ItemsAt(root, ref), item_index + 1, new)))

\* Placement::InFolderPrepend falling back to inserting before a Bookmark.
AddInFolderPrependLenient(root, item_index, ref, new, id) ==
    LET target == ItemsAt(root, ref)[item_index + 1]
    IN  IF IsFolder(target)
        THEN Outcome(Ok, SetItemsAt(root, ref \o <<item_index>>,
                                    VecInsert(target.items, 0, new)))
        ELSE Outcome(Ok, SetItemsAt(root, ref,
                                    VecInsert(ItemsAt(root, ref), item_index, new)))

\* Placement::InFolderPrepend, failing with NotaFolder(id.to_string()).
AddInFolderPrepend(root, item_index, ref, new, id) ==
    LET target == ItemsAt(root, ref)[item_index + 1]
    IN  IF IsFolder(target)
        THEN Outcome(Ok, SetItemsAt(root, ref \o <<item_index>>,
                                    VecInsert(target.items, 0, new)))
        ELSE Outcome(Err("NotaFolder", U64ToString(id)), root)

\* Placement::InFolderAppend, failing with NotaFolder(id.to_string()).
AddInFolderAppend(root, item_index, ref, new, id) ==
    LET target == ItemsAt(root, ref)[item_index + 1]
    IN  IF IsFolder(target)
        THEN Outcome(Ok, SetItemsAt(root, ref \o <<item_index>>,
                                    VecPush(target.items, new)))
        ELSE Outcome(Err("NotaFolder", U64ToString(id)), root)

\* The Path arm inserting at the front of the folder.
AddPathFront(root, item_index, ref, new) ==
    LET target == ItemsAt(root, ref)[item_index + 1]
    IN  IF IsFolder(target)
        THEN Outcome(Ok, SetItemsAt(root, ref \o <<item_index>>,
                                    VecInsert(target.items, 0, new)))
        ELSE Outcome(Err("NotaFolder", get_id(target)), root)

\* XbelPath::Path arm of bookmark_add, failing with NotaFolder(id of the
\* resolved item).
AddPath(root, item_index, ref, new) ==
    LET target == ItemsAt(root, ref)[item_index + 1]
    IN  IF IsFolder(target)
        THEN Outcome(Ok, SetItemsAt(root, ref \o <<item_index>>,
                                    VecPush(target.items, new)))
        ELSE Outcome(Err("NotaFolder", get_id(target)), root)

\* The match of bookmark_add on the resolved address: the result of the
\* handler so far and the document in memory.
AddMatch(root, under, item_index, ref, new) ==
    CASE under.kind = "Root" -> AddRoot(root, item_index, ref, new)
      [] under.kind = "Id" /\ under.placement = "Before" ->
           AddBefore(root, item_index, ref, new)
      [] under.kind = "Id" /\ under.placement = "After" ->
           AddAfter(root, item_index, ref, new)
      [] under.kind = "Id" /\ under.placement = "InFolderPrepend" ->
           AddInFolderPrepend(root, item_index, ref, new, under.id)
      [] under.kind = "Id" /\ under.placement = "InFolderAppend" ->
           AddInFolderAppend(root, item_index, ref, new, under.id)
      [] under.kind = "Folder" -> AddPath(root, item_index, ref, new)

\* A removal that leaves the children of a removed Folder in its place.
RmItemKeepChildren(root, dry_run, item_index, ref) ==
    LET items == ItemsAt(root, ref)
        target == items[item_index + 1]
    IN  IF dry_run THEN Outcome(Ok, root)
        ELSE Outcome(Ok, SetItemsAt(root, ref,
                 SubSeq(items, 1, item_index)
                 \o (IF IsFolder(target) THEN target.items ELSE <<>>)
                 \o SubSeq(items, item_index + 2, Len(items))))

\* A removal that does not look at the dry-run flag.
RmItemIgnoresDryRun(root, dry_run, item_index, ref) ==
    Outcome(Ok, SetItemsAt(root, ref, VecRemove(ItemsAt(root, ref), item_index)))

\* XbelPath::Id and XbelPath::Path arms of bookmark_rm.
RmItem(root, dry_run, item_index, ref) ==
    IF dry_run THEN Outcome(Ok, root)
    ELSE Outcome(Ok, SetItemsAt(root, ref,
                                VecRemove(ItemsAt(root, ref), item_index)))

\* The match of bookmark_rm on the resolved address; the Root arm is
\* unimplemented!(), which aborts the program.
RmMatch(root, under, dry_run, item_index, ref) ==
    CASE under.kind = "Root" -> Outcome(Err("unimplemented", <<>>), root)
      [] under.kind = "Id" -> RmItem(root, dry_run, item_index, ref)
      [] under.kind = "Folder" -> RmItem(root, dry_run, item_index, ref)

(***************************************************************************)
(* The documents and the command lines the model draws from.               *)
(***************************************************************************)
Titles == {<<"a">>, <<"b">>}

DefaultTitle == <<"a">>

Href == <<"h">>

\* Ids that may occur more than once in a loaded document.
IdStrings == {<<"1">>, <<"2">>}

\* Number of items of a sibling list, descendants included.
RECURSIVE Size(_)
Size(items) ==
    IF items = <<>> THEN 0
    ELSE 1 + (IF IsFolder(Head(items)) THEN Size(Head(items).items) ELSE 0)
           + Size(Tail(items))

\* Every sibling list of exactly n items (descendants included) whose ids
\* and titles are drawn from the two sets.
RECURSIVE ListsOf(_, _, _)
ListsOf(n, ids, titles) ==
    IF n = 0 THEN {<<>>}
    ELSE UNION {
        LET firsts ==
              (IF k = 1
               THEN {Bookmark(i, Href, t) : i \in ids, t \in titles}
               ELSE {})
              \cup UNION {{Folder(i, t, c) : i \in ids, t \in titles}
                             : c \in ListsOf(k - 1, ids, titles)}
        IN  {<<f>> \o r : f \in firsts, r \in ListsOf(n - k, ids, titles)}
        : k \in 1..n}

\* The same list with ids n, n + 1, .. given in depth-first order.
RECURSIVE Renumber(_, _)
Renumber(items, n) ==
    IF items = <<>> THEN <<>>
    ELSE LET h == Head(items)
             h2 == IF IsFolder(h)
                   THEN [h EXCEPT !.id = U64ToString(n),
                                  !.items = Renumber(h.items, n + 1)]
                   ELSE [h EXCEPT !.id = U64ToString(n)]
         IN  <<h2>> \o Renumber(Tail(items), n + Size(<<h>>))

\* The document of the tests' XBEL_EMPTY.
XBEL_EMPTY == XbelNew

\* The document of the tests' XBEL_BANK (the euro sign of the title of
\* bookmark 4 is written E).
XBEL_BANK ==
    <<Folder(<<"1">>, <<"a", "d", "m", "i", "n">>,
        <<Folder(<<"2">>, <<"b", "a", "n", "k">>,
            <<Bookmark(<<"3">>,
                  <<"h", "t", "t", "p", "s", ":", "/", "/", "w", "w", "w", ".",
                    "b", "a", "n", "k", "1", ".", "c", "o", "m", "/">>,
                  <<"B", "a", "n", "k", " ", "1", " ", "-", " ", "B", "e", "s",
                    "t", " ", "b", "a", "n", "k", " ", "i", "n", " ", "t", "h",
                    "e", " ", "w", "o", "r", "l", "d">>),
              Bookmark(<<"4">>,
                  <<"h", "t", "t", "p", "s", ":", "/", "/", "w", "w", "w", ".",
                    "b", "a", "n", "k", "2", ".", "c", "o", "m">>,
                  <<"B", "a", "n", "k", " ", "2", " ", "b", "e", "c", "a", "u",
                    "s", "e", " ", "2", " ", ">", " ", "1", " ", "!", "#", "E">>)>>),
          Bookmark(<<"5">>,
              <<"h", "t", "t", "p", "s", ":", "/", "/", "w", "w", "w", ".",
                "b", "a", "n", "k", "3", ".", "c", "o", "m">>,
              <<"M", "y", " ", "c", "u", "r", "r", "e", "n", "t", " ", "b",
                "a", "n", "k", " ", "U", "+", "1", "F", "9", "2", "9", " ">>)>>)>>

BankPath == <<"a", "d", "m", "i", "n", "/", "b", "a", "n", "k">>

\* Documents a file can hold: any ids (duplicates included) under one
\* title, any titles under pairwise distinct ids, and the tests' documents.
Documents ==
    {XBEL_EMPTY, XBEL_BANK}
    \cup UNION {ListsOf(n, IdStrings, {DefaultTitle}) : n \in 0..MaxNodes}
    \cup UNION {{Renumber(d, 1) : d \in ListsOf(n, {<<"0">>}, Titles)}
                   : n \in 0..MaxNodes}

\* An id attribute edited by hand into something that is not a number.
MalformedId == <<"x">>

\* Documents in which any id may be malformed.
MalformedDocuments ==
    UNION {ListsOf(n, {<<"1">>, MalformedId}, {DefaultTitle}) : n \in 0..MaxNodes}

\* Documents a sequence of commands starts from: the tests' documents.
SeqDocuments == {XBEL_EMPTY, XBEL_BANK}

\* Ids an address can name.
AddressIds == 1..MaxNodes

\* Sequences of 1..n titles.
RECURSIVE SegmentLists(_)
SegmentLists(n) ==
    IF n = 0 THEN {<<>>}
    ELSE LET shorter == SegmentLists(n - 1)
         IN  shorter \cup {Append(p, t) : p \in {q \in shorter : Len(q) = n - 1},
                                          t \in Titles}

\* The segments joined by '/'.
RECURSIVE Join(_)
Join(segs) ==
    IF Len(segs) = 1 THEN Head(segs)
    ELSE Head(segs) \o <<"/">> \o Join(Tail(segs))

PathStrings == {Join(p) : p \in SegmentLists(MaxSegs) \ {<<>>}} \cup {BankPath}

IdPrefixes ==
    {<<>>, PLACEMENT_AFTER_PREFIX, PLACEMENT_BEFORE_PREFIX,
     PLACEMENT_APPEND_PREFIX, PLACEMENT_PREPEND_PREFIX}

\* Values of --under.
AddAddresses ==
    {RootString}
    \cup {pre \o U64ToString(n) : pre \in IdPrefixes, n \in AddressIds}
    \cup PathStrings

\* Values of --item.
RmAddresses ==
    {RootString} \cup {U64ToString(n) : n \in AddressIds} \cup PathStrings

\* under_parser.
Unders == {UnderFromStr(s) : s \in AddAddresses}

RmUnders == {UnderFromStr(s) : s \in RmAddresses}

XbelPaths == {XbelPathFrom(u) : u \in Unders}

NewUrl == <<"u">>

NewTitle == <<"n">>

\* clap's default of --disable-push when the flag is absent.
DisablePushDefault == "true"

(***************************************************************************)
(* State machine: one run of the program on the document of the file.      *)
(***************************************************************************)
\* The file holds a document; nothing has run yet, and an iterator of
\* each kind has been made for the document.
Init ==
    /\ file \in Documents
    /\ loaded = file
    /\ xbel = file
    /\ op = [name |-> "none"]
    /\ resolved = None
    /\ bookmark = None
    /\ res = Ok
    /\ written = FALSE
    /\ pushed = FALSE
    /\ buffer = <<>>
    /\ iterator = IteratorNew
    /\ nesting = IteratorNew
    /\ runs = 0
    /\ version = XBEL_VERSION
    /\ parsed = None

\* A call of Xbel::get_items_mut on the loaded document.
GetItemsMut(path) ==
    /\ op.name = "none"
    /\ op' = [name |-> "get_items_mut", path |-> path,
              indexes |-> IF path.kind = "Path"
                          THEN PathSplitIndexes(xbel, <<(<<>>)>>,
                                                Split(path.s, <<>>), 0)
                          ELSE <<>>]
    /\ resolved' = get_items_mut(xbel, path)
    /\ res' = IF resolved' = Panicked THEN Err("unwrap", <<>>) ELSE Ok
    /\ UNCHANGED <<file, loaded, xbel, bookmark, written, pushed,
                   buffer, iterator, nesting, runs, version, parsed>>

\* A call of Xbel::new_bookmark on the loaded document.
NewBookmark(url, title) ==
    /\ op.name = "none"
    /\ op' = [name |-> "new_bookmark"]
    /\ bookmark' = new_bookmark(xbel, url, title)
    /\ res' = IF bookmark' = Panicked THEN Err("unwrap", <<>>) ELSE Ok
    /\ UNCHANGED <<file, loaded, xbel, resolved, written, pushed,
                   buffer, iterator, nesting, runs, version, parsed>>

\* A call of Xbel::get_highest_id on the loaded document.
GetHighestId ==
    /\ op.name = "none"
    /\ op' = [name |-> "get_highest_id", ret |-> get_highest_id(xbel)]
    /\ res' = IF get_highest_id(xbel) = ParseErr THEN Err("unwrap", <<>>)
              ELSE Ok
    /\ UNCHANGED <<file, loaded, xbel, resolved, bookmark, written, pushed,
                   buffer, iterator, nesting, runs, version, parsed>>

\* A call of Xbel::to_string on the loaded document.
ToString ==
    /\ op.name = "none"
    /\ op' = [name |-> "to_string"]
    /\ IF to_string(xbel) = Panicked
       THEN res' = Err("unwrap", <<>>) /\ UNCHANGED buffer
       ELSE res' = Ok /\ buffer' = to_string(xbel)
    /\ UNCHANGED <<file, loaded, xbel, resolved, bookmark, written, pushed,
                   iterator, nesting, runs, version, parsed>>

\* The file after File::options().write(true).truncate(true).open(): not
\* a document any more.
Truncated == <<[kind |-> "Truncated"]>>

\* An end of the handlers that writes whatever the match returned.
WriteUnchecked(out, disable_push, write_ok, push_ok) ==
    /\ file' = out.xbel
    /\ buffer' = to_string(out.xbel)
    /\ written' = TRUE
    /\ pushed' = (disable_push = "false")
    /\ res' = out.res

\* An end of the handlers that pushes whether or not the write succeeded.
WriteOrNotAndPush(out, disable_push, write_ok, push_ok) ==
    IF out.res # Ok
    THEN /\ res' = out.res
         /\ UNCHANGED <<file, written, pushed, buffer>>
    ELSE IF ~write_ok
    THEN /\ res' = Err("XbelReadError", <<>>)
         /\ pushed' = (disable_push = "false")
         /\ UNCHANGED <<file, written, buffer>>
    ELSE IF to_string(out.xbel) = Panicked
    THEN /\ res' = Err("unwrap", <<>>)
         /\ file' = Truncated
         /\ buffer' = <<>>
         /\ UNCHANGED <<written, pushed>>
    ELSE /\ file' = out.xbel
         /\ buffer' = to_string(out.xbel)
         /\ written' = TRUE
         /\ pushed' = (disable_push = "false")
         /\ res' = IF disable_push = "false" /\ ~push_ok
                   THEN Err("GitError", <<>>)
                   ELSE Ok

\* The end of bookmark_add and bookmark_rm: to_file (open with truncate,
\* to_string, write_all), then git_push.
WriteAndPush(out, disable_push, write_ok, push_ok) ==
    IF out.res # Ok
    THEN /\ res' = out.res
         /\ UNCHANGED <<file, written, pushed, buffer>>
    ELSE IF ~write_ok
    THEN /\ res' = Err("XbelReadError", <<>>)
         /\ UNCHANGED <<file, written, pushed, buffer>>
    ELSE IF to_string(out.xbel) = Panicked
    THEN /\ res' = Err("unwrap", <<>>)
         /\ file' = Truncated
         /\ buffer' = <<>>
         /\ UNCHANGED <<written, pushed>>
    ELSE /\ file' = out.xbel
         /\ buffer' = to_string(out.xbel)
         /\ written' = TRUE
         /\ pushed' = (disable_push = "false")
         /\ res' = IF disable_push = "false" /\ ~push_ok
                   THEN Err("GitError", <<>>)
                   ELSE Ok

\* bookmark_add that looks for the repository url after it has loaded the
\* document, built the bookmark and inserted it.
BookmarkAddUrlLate(add_args, has_url, write_ok, push_ok) ==
    LET xbel_path == XbelPathFrom(add_args.under)
        new == new_bookmark(file, add_args.url, add_args.title)
        found == IF new = Panicked THEN None
                 ELSE get_items_mut(file, xbel_path)
        out == IF new = Panicked \/ found = Panicked
               THEN Outcome(Err("unwrap", <<>>), file)
               ELSE IF found.some
               THEN AddMatch(file, add_args.under, found.index, found.ref, new)
               ELSE Outcome(Err("XbelPathNotFound", <<>>), file)
    IN  /\ op.name = "none"
        /\ op' = [name |-> "bookmark_add", path |-> xbel_path,
                  under |-> add_args.under, dry_run |-> FALSE,
                  disable_push |-> add_args.disable_push, has_url |-> has_url]
        /\ UNCHANGED <<iterator, nesting, runs, version, parsed>>
        /\ loaded' = file
        /\ bookmark' = new
        /\ resolved' = found
        /\ xbel' = out.xbel
        /\ IF out.res = Ok /\ add_args.disable_push = "false" /\ ~has_url
           THEN /\ res' = Err("PushWithoutUrl", <<>>)
                /\ UNCHANGED <<file, written, pushed, buffer>>
           ELSE WriteAndPush(out, add_args.disable_push, write_ok, push_ok)

\* bookmark_add.
BookmarkAdd(add_args, has_url, write_ok, push_ok) ==
    LET xbel_path == XbelPathFrom(add_args.under)
        new == new_bookmark(file, add_args.url, add_args.title)
        found == IF new = Panicked THEN None
                 ELSE get_items_mut(file, xbel_path)
        out == IF new = Panicked \/ found = Panicked
               THEN Outcome(Err("unwrap", <<>>), file)
               ELSE IF found.some
               THEN AddMatch(file, add_args.under, found.index, found.ref, new)
               ELSE Outcome(Err("XbelPathNotFound", <<>>), file)
    IN  /\ op.name = "none"
        /\ op' = [name |-> "bookmark_add", path |-> xbel_path,
                  under |-> add_args.under, dry_run |-> FALSE,
                  disable_push |-> add_args.disable_push, has_url |-> has_url]
        /\ UNCHANGED <<iterator, nesting, runs, version, parsed>>
        /\ IF add_args.disable_push = "false" /\ ~has_url
           THEN /\ res' = Err("PushWithoutUrl", <<>>)
                /\ UNCHANGED <<file, loaded, xbel, resolved, bookmark,
                               written, pushed, buffer>>
           ELSE /\ loaded' = file
                /\ bookmark' = new
                /\ resolved' = found
                /\ xbel' = out.xbel
                /\ WriteAndPush(out, add_args.disable_push, write_ok, push_ok)

\* bookmark_rm.
BookmarkRm(rm_args, has_url, write_ok, push_ok) ==
    LET xbel_path == XbelPathFrom(rm_args.under)
        found == get_items_mut(file, xbel_path)
        out == IF found = Panicked
               THEN Outcome(Err("unwrap", <<>>), file)
               ELSE IF found.some
               THEN RmMatch(file, rm_args.under, rm_args.dry_run,
                            found.index, found.ref)
               ELSE Outcome(Err("XbelPathNotFound", <<>>), file)
    IN  /\ op.name = "none"
        /\ op' = [name |-> "bookmark_rm", path |-> xbel_path,
                  under |-> rm_args.under, dry_run |-> rm_args.dry_run,
                  disable_push |-> rm_args.disable_push, has_url |-> has_url]
        /\ UNCHANGED <<iterator, nesting, runs, version, parsed>>
        /\ IF rm_args.disable_push = "false" /\ ~has_url
           THEN /\ res' = Err("PushWithoutUrl", <<>>)
                /\ UNCHANGED <<file, loaded, xbel, resolved, bookmark,
                               written, pushed, buffer>>
           ELSE /\ loaded' = file
                /\ resolved' = found
                /\ xbel' = out.xbel
                /\ WriteAndPush(out, rm_args.disable_push, write_ok, push_ok)
                /\ UNCHANGED bookmark

AddArgs ==
    [url : {NewUrl}, title : {NewTitle}, under : Unders,
     disable_push : {DisablePushDefault}]

RemoveArgs ==
    [under : RmUnders, dry_run : BOOLEAN, disable_push : {DisablePushDefault}]

Next ==
    \/ \E path \in XbelPaths : GetItemsMut(path)
    \/ NewBookmark(NewUrl, NewTitle)
    \/ \E add_args \in AddArgs : BookmarkAdd(add_args, FALSE, TRUE, TRUE)
    \/ \E rm_args \in RemoveArgs : BookmarkRm(rm_args, FALSE, TRUE, TRUE)

Spec == Init /\ [][Next]_vars

(***************************************************************************)
(* The calls that read ids, on documents whose ids may be malformed.       *)
(***************************************************************************)
InitIds ==
    /\ file \in MalformedDocuments
    /\ loaded = file
    /\ xbel = file
    /\ op = [name |-> "none"]
    /\ resolved = None
    /\ bookmark = None
    /\ res = Ok
    /\ written = FALSE
    /\ pushed = FALSE
    /\ buffer = <<>>
    /\ iterator = IteratorNew
    /\ nesting = IteratorNew
    /\ runs = 0
    /\ version = XBEL_VERSION
    /\ parsed = None

NextIds ==
    \/ \E path \in XbelPaths : GetItemsMut(path)
    \/ NewBookmark(NewUrl, NewTitle)
    \/ GetHighestId
    \/ ToString
    \/ \E add_args \in AddArgs : BookmarkAdd(add_args, FALSE, TRUE, TRUE)
    \/ \E rm_args \in RemoveArgs : BookmarkRm(rm_args, FALSE, TRUE, TRUE)

SpecIds == InitIds /\ [][NextIds]_vars

(***************************************************************************)
(* The two iterators, one call of next() at a time.                        *)
(***************************************************************************)
\* Number of calls of next() that returned None.
NoneCount(returned) ==
    Cardinality({k \in 1..Len(returned) : returned[k] = None})

\* A call of XbelIterator::next.
IteratorNext ==
    /\ NoneCount(iterator.returned) < MaxExtraCalls
    /\ iterator' = XbelIteratorNext(iterator, xbel)
    /\ UNCHANGED <<file, loaded, xbel, op, resolved, bookmark, res, written,
                   pushed, buffer, nesting, runs, version, parsed>>

\* A call of XbelNestingIterator::next.
NestingNext ==
    /\ NoneCount(nesting.returned) < MaxExtraCalls
    /\ nesting' = XbelNestingIteratorNext(nesting, xbel)
    /\ UNCHANGED <<file, loaded, xbel, op, resolved, bookmark, res, written,
                   pushed, buffer, iterator, runs, version, parsed>>

NextIter == IteratorNext \/ NestingNext

SpecIter == Init /\ [][NextIter]_vars

(***************************************************************************)
(* to_string next to the nesting iterator, on the same document.           *)
(***************************************************************************)
NextString == ToString \/ NestingNext

SpecString == Init /\ [][NextString]_vars

(***************************************************************************)
(* Commands run one after the other on the same file.                      *)
(***************************************************************************)
InitSeq ==
    /\ file \in SeqDocuments
    /\ loaded = file
    /\ xbel = file
    /\ op = [name |-> "none"]
    /\ resolved = None
    /\ bookmark = None
    /\ res = Ok
    /\ written = FALSE
    /\ pushed = FALSE
    /\ buffer = <<>>
    /\ iterator = IteratorNew
    /\ nesting = IteratorNew
    /\ runs = 0
    /\ version = XBEL_VERSION
    /\ parsed = None

\* The command has returned and the program is started again: the file
\* keeps what was written and is read anew, everything else is as new.
NextCommand ==
    /\ op.name \in {"bookmark_add", "bookmark_rm"}
    /\ runs < MaxRuns
    /\ runs' = runs + 1
    /\ op' = [name |-> "none"]
    /\ loaded' = file
    /\ xbel' = file
    /\ resolved' = None
    /\ bookmark' = None
    /\ res' = Ok
    /\ written' = FALSE
    /\ pushed' = FALSE
    /\ version' = IF buffer = <<>> THEN version ELSE from_str(buffer).version
    /\ UNCHANGED <<file, buffer, iterator, nesting, parsed>>

\* Xbel::try_from_file on the file the command has written.
ReadBack ==
    /\ op.name \in {"bookmark_add", "bookmark_rm"}
    /\ written
    /\ op' = [name |-> "from_file"]
    /\ parsed' = from_str(buffer)
    /\ UNCHANGED <<file, loaded, xbel, resolved, bookmark, res, written,
                   pushed, buffer, iterator, nesting, runs, version>>

NextSeq ==
    \/ \E add_args \in AddArgs : BookmarkAdd(add_args, FALSE, TRUE, TRUE)
    \/ \E rm_args \in RemoveArgs : BookmarkRm(rm_args, FALSE, TRUE, TRUE)
    \/ ToString
    \/ NextCommand

SpecSeq == InitSeq /\ [][NextSeq]_vars

(***************************************************************************)
(* Commands on a file whose xbel element may lack the version attribute,   *)
(* and the file read back.                                                 *)
(***************************************************************************)
\* Xbel.version after loading: the attribute, or String::default().
Versions == {XBEL_VERSION, ""}

InitRound ==
    /\ file \in SeqDocuments
    /\ loaded = file
    /\ xbel = file
    /\ op = [name |-> "none"]
    /\ resolved = None
    /\ bookmark = None
    /\ res = Ok
    /\ written = FALSE
    /\ pushed = FALSE
    /\ buffer = <<>>
    /\ iterator = IteratorNew
    /\ nesting = IteratorNew
    /\ runs = 0
    /\ version \in Versions
    /\ parsed = None

NextRound ==
    \/ \E add_args \in AddArgs : BookmarkAdd(add_args, FALSE, TRUE, TRUE)
    \/ \E rm_args \in RemoveArgs : BookmarkRm(rm_args, FALSE, TRUE, TRUE)
    \/ ReadBack
    \/ NextCommand

SpecRound == InitRound /\ [][NextRound]_vars

(***************************************************************************)
(* Vocabulary of the properties: positions of a document, stated without   *)
(* the queues of the code.  A position is <<ref, index>>: the item at the  *)
(* 0-based index of the sibling list behind ref.                           *)
(***************************************************************************)
RECURSIVE RefsBelow(_, _)
RefsBelow(items, ref) ==
    {ref} \cup UNION {RefsBelow(items[k].items, ref \o <<k - 1>>)
                         : k \in {j \in 1..Len(items) : IsFolder(items[j])}}

Positions(root) ==
    UNION {{<<ref, i>> : i \in 0..(Len(ItemsAt(root, ref)) - 1)}
               : ref \in RefsBelow(root, <<>>)}

ItemAt(root, pos) == ItemsAt(root, pos[1])[pos[2] + 1]

\* The indexes from the top-level list down to the item.
FullPath(pos) == pos[1] \o <<pos[2]>>

\* p comes before q in flat depth-first order: p is an ancestor of q, or
\* p is smaller where they first differ.
DfsBefore(p, q) ==
    LET a == FullPath(p)
        b == FullPath(q)
    IN  /\ a # b
        /\ \/ Len(a) < Len(b) /\ SubSeq(b, 1, Len(a)) = a
           \/ \E k \in 1..Len(a) :
                  /\ k <= Len(b)
                  /\ SubSeq(a, 1, k - 1) = SubSeq(b, 1, k - 1)
                  /\ a[k] < b[k]

\* p comes before q in level order: a shallower list first, lists of one
\* depth in the order their folders are met, a list from left to right.
LevelBefore(p, q) ==
    LET a == FullPath(p)
        b == FullPath(q)
    IN  \/ Len(a) < Len(b)
        \/ /\ Len(a) = Len(b)
           /\ \E k \in 1..Len(a) :
                  /\ SubSeq(a, 1, k - 1) = SubSeq(b, 1, k - 1)
                  /\ a[k] < b[k]

WithId(root, n) == {p \in Positions(root) : ParseU64(get_id(ItemAt(root, p))) = n}

WithTitle(root, t) == {p \in Positions(root) : get_title(ItemAt(root, p)) = t}

\* The handler or the call has resolved op.path on the loaded document.
Resolving ==
    /\ op.name \in {"get_items_mut", "bookmark_add", "bookmark_rm"}
    /\ res.err # "PushWithoutUrl"

ResolvedPos == <<resolved.ref, resolved.index>>

\* C1: get_items_mut(Id(n)) returns the position of the first item with id
\* n in level order, also when the id occurs more than once, and nothing
\* when no item has id n.
C1_IdIsLevelOrderFirst ==
    (Resolving /\ op.path.kind = "Id") =>
        LET matches == WithId(loaded, op.path.id)
        IN  IF matches = {} THEN resolved = None
            ELSE /\ resolved.some
                 /\ ResolvedPos \in matches
                 /\ \A m \in matches \ {ResolvedPos} : LevelBefore(ResolvedPos, m)

\* C1 witness: a duplicated id whose level-order-first item comes after
\* another match in flat depth-first order.
C1_Witness ==
    /\ op.name = "get_items_mut"
    /\ op.path.kind = "Id"
    /\ resolved.some
    /\ \E m \in WithId(loaded, op.path.id) : DfsBefore(m, ResolvedPos)

\* The folder that owns the sibling list behind a reference.
OwnerOf(root, ref) ==
    ItemsAt(root, SubSeq(ref, 1, Len(ref) - 1))[ref[Len(ref)] + 1]

\* The list behind ref belongs to a folder titled as the last of segs,
\* inside a folder titled as the one before, and so on.
RECURSIVE NestedIn(_, _, _)
NestedIn(root, ref, segs) ==
    /\ ref # <<>>
    /\ get_title(OwnerOf(root, ref)) = segs[Len(segs)]
    /\ \/ Len(segs) = 1
       \/ \E n \in 1..(Len(ref) - 1) :
              NestedIn(root, SubSeq(ref, 1, n), SubSeq(segs, 1, Len(segs) - 1))

PathSegments == Split(op.path.s, <<>>)

\* C2: for a path of several segments, get_items_mut(Path) returns an item
\* titled as the last segment whose sibling list belongs to a folder titled
\* as the segment before, itself inside a folder titled as the one before.
C2_PathFollowsFolders ==
    (Resolving /\ op.path.kind = "Path" /\ Len(PathSegments) > 1 /\ resolved.some) =>
        /\ get_title(ItemAt(loaded, ResolvedPos)) = PathSegments[Len(PathSegments)]
        /\ NestedIn(loaded, resolved.ref,
                    SubSeq(PathSegments, 1, Len(PathSegments) - 1))

\* C3: when the first item titled as the first of several segments is a
\* Bookmark, get_items_mut(Path) returns nothing.
C3_BookmarkSegmentIsNone ==
    (Resolving /\ op.path.kind = "Path" /\ Len(PathSegments) > 1) =>
        LET firsts == WithTitle(loaded, PathSegments[1])
        IN  \A f \in firsts :
               ((\A m \in firsts \ {f} : LevelBefore(f, m))
                /\ ~IsFolder(ItemAt(loaded, f))) => resolved = None

\* C4: get_items_mut(Root) succeeds on every document, the empty one
\* included, with index 0 and the top-level list.
C4_RootIsIndexZero ==
    (Resolving /\ op.path.kind = "Root") =>
        /\ resolved.some
        /\ resolved.index = 0
        /\ resolved.ref = <<>>
        /\ ItemsAt(loaded, resolved.ref) = loaded

\* C4 witness: Root resolved on the empty document, where index 0 is no item.
C4_Witness ==
    /\ op.name = "get_items_mut"
    /\ op.path.kind = "Root"
    /\ loaded = XBEL_EMPTY
    /\ resolved.some
    /\ resolved.index >= Len(ItemsAt(loaded, resolved.ref))

\* The largest id of a document, 0 when it has no item.
MaxIdOf(root) ==
    LET ids == {ParseU64(get_id(ItemAt(root, p))) : p \in Positions(root)}
    IN  IF ids = {} THEN 0 ELSE CHOOSE m \in ids : \A n \in ids : n <= m

\* The handler or the call has minted a bookmark for the loaded document.
Minting ==
    \/ op.name = "new_bookmark"
    \/ op.name = "bookmark_add" /\ res.err # "PushWithoutUrl"

C6_AddRootAppends ==
    (op.name = "bookmark_add" /\ op.under.kind = "Root" /\ res.err # "PushWithoutUrl") =>
        /\ res = Ok
        /\ Len(xbel) = Len(loaded) + 1
        /\ \A k \in 1..Len(loaded) : xbel[k] = loaded[k]
        /\ xbel[Len(xbel)] = bookmark
        /\ loaded = XBEL_EMPTY =>
               (Len(xbel) = 1 /\ xbel[1].kind = "Bookmark" /\ xbel[1].id = <<"1">>)

\* C6 witness: a bookmark added under Root to the empty document.
C6_Witness ==
    /\ op.name = "bookmark_add"
    /\ op.under.kind = "Root"
    /\ res = Ok
    /\ loaded = XBEL_EMPTY
    /\ Len(xbel) = 1

\* An item without its children.
Shallow(item) ==
    IF IsFolder(item)
    THEN [kind |-> item.kind, id |-> item.id, title |-> item.title]
    ELSE item

\* What XbelIterator yields on a document, each item without its children.
FlatOf(root) ==
    LET flat == XbelIterator(root)
    IN  [k \in 1..Len(flat) |-> Shallow(flat[k])]

\* The place of a position in flat depth-first order, from 1.
RankOf(root, p) == 1 + Cardinality({q \in Positions(root) : DfsBefore(q, p)})

\* The number of items of the subtree of an item, the item included.
SubtreeSize(item) == Size(<<item>>)

\* Every item of a document with the folder it is a child of.
WithParents(root) ==
    LET n == Cardinality(Positions(root))
        at(k) == CHOOSE p \in Positions(root) : RankOf(root, p) = k
    IN  [k \in 1..n |->
            [item |-> Shallow(ItemAt(root, at(k))),
             parent |-> IF at(k)[1] = <<>> THEN [kind |-> "Xbel"]
                        ELSE Shallow(OwnerOf(root, at(k)[1]))]]

\* The level-order-first item of the loaded document with the id the
\* address names.
TargetPos ==
    CHOOSE p \in WithId(loaded, op.under.id) :
        \A m \in WithId(loaded, op.under.id) \ {p} : LevelBefore(p, m)

\* A sequence with x put in so that it becomes element k.
Spliced(seq, k, x) == SubSeq(seq, 1, k - 1) \o <<x>> \o SubSeq(seq, k, Len(seq))

\* A sequence without its n elements from element k on.
Without(seq, k, n) == SubSeq(seq, 1, k - 1) \o SubSeq(seq, k + n, Len(seq))

AddAtId(placements) ==
    /\ op.name = "bookmark_add"
    /\ res.err # "PushWithoutUrl"
    /\ op.under.kind = "Id"
    /\ op.under.placement \in placements
    /\ WithId(loaded, op.under.id) # {}

\* C7: bookmark_add at Id(X) with Before (After) puts the new bookmark in
\* the sibling list of the item with id X, right before it (right after
\* it: after its descendants in flat order, last when X was last); the
\* flat sequence is the one before with the new bookmark spliced in.
C7_BeforeAfterSplice ==
    AddAtId({"Before", "After"}) =>
        LET old == ItemsAt(loaded, TargetPos[1])
            new == ItemsAt(xbel, TargetPos[1])
            i == TargetPos[2] + 1
            k == RankOf(loaded, TargetPos)
            n == SubtreeSize(old[i])
        IN  /\ res = Ok
            /\ Len(new) = Len(old) + 1
            /\ op.under.placement = "Before" =>
                   /\ new[i] = bookmark
                   /\ new[i + 1] = old[i]
                   /\ FlatOf(xbel) = Spliced(FlatOf(loaded), k, bookmark)
            /\ op.under.placement = "After" =>
                   /\ new[i] = old[i]
                   /\ new[i + 1] = bookmark
                   /\ i = Len(old) => new[Len(new)] = bookmark
                   /\ FlatOf(xbel) = Spliced(FlatOf(loaded), k + n, bookmark)

\* C7 witness: a bookmark added after a folder that has children.
C7_Witness ==
    /\ AddAtId({"After"})
    /\ res = Ok
    /\ IsFolder(ItemAt(loaded, TargetPos))
    /\ ItemAt(loaded, TargetPos).items # <<>>

\* C8: bookmark_add at Id(X) with InFolderPrepend or InFolderAppend (what
\* an address made of an integer alone means): the new bookmark becomes the
\* first or the last child of the item with id X when it is a Folder; when
\* it is a Bookmark the handler fails with NotaFolder carrying X, nothing
\* is inserted and nothing is written.
C8_InFolderOrNotAFolder ==
    AddAtId({"InFolderPrepend", "InFolderAppend"}) =>
        LET target == ItemAt(loaded, TargetPos)
        IN  /\ UnderFromStr(U64ToString(op.under.id))
                   = UnderId(op.under.id, "InFolderAppend")
            /\ IsFolder(target) =>
                   /\ res = Ok
                   /\ Size(xbel) = Size(loaded) + 1
                   /\ Shallow(ItemAt(xbel, TargetPos)) = Shallow(target)
                   /\ ItemAt(xbel, TargetPos).items =
                          IF op.under.placement = "InFolderPrepend"
                          THEN <<bookmark>> \o target.items
                          ELSE target.items \o <<bookmark>>
            /\ ~IsFolder(target) =>
                   /\ res.err = "NotaFolder"
                   /\ ParseU64(res.what) = op.under.id
                   /\ xbel = loaded
                   /\ file = loaded
                   /\ ~written

\* C8 witness: InFolderPrepend at the id of a Bookmark fails with NotaFolder.
C8_Witness ==
    /\ AddAtId({"InFolderPrepend"})
    /\ ~IsFolder(ItemAt(loaded, TargetPos))
    /\ res.err = "NotaFolder"

\* C9: bookmark_add with a title path: the new bookmark becomes the last
\* child of the resolved item when it is a Folder; when it is a Bookmark
\* the handler fails with NotaFolder, nothing is inserted and nothing is
\* written.
C9_PathAppendsOrNotAFolder ==
    (/\ op.name = "bookmark_add"
     /\ res.err # "PushWithoutUrl"
     /\ op.under.kind = "Folder"
     /\ resolved.some) =>
        LET target == ItemAt(loaded, ResolvedPos)
        IN  /\ IsFolder(target) =>
                   /\ res = Ok
                   /\ Size(xbel) = Size(loaded) + 1
                   /\ Shallow(ItemAt(xbel, ResolvedPos)) = Shallow(target)
                   /\ ItemAt(xbel, ResolvedPos).items = target.items \o <<bookmark>>
            /\ ~IsFolder(target) =>
                   /\ res.err = "NotaFolder"
                   /\ xbel = loaded
                   /\ file = loaded
                   /\ ~written

\* C9 witness: a bookmark added by title path to a folder that has children.
C9_Witness ==
    /\ op.name = "bookmark_add"
    /\ op.under.kind = "Folder"
    /\ resolved.some
    /\ res = Ok
    /\ IsFolder(ItemAt(loaded, ResolvedPos))
    /\ ItemAt(loaded, ResolvedPos).items # <<>>

\* The ids XbelIterator yields on a document.
FlatIds(root) == [k \in 1..Len(FlatOf(root)) |-> FlatOf(root)[k].id]

\* C10: bookmark_rm without dry run, with an Id or Path address that
\* resolves, removes the resolved item from its sibling list and, with a
\* Folder, its subtree: the flat sequence is the one before without the
\* block of the item and its descendants, every other item keeps its
\* order and its parent; removing "admin/bank" from the bank document
\* leaves ids 1 and 5.
C10_RmRemovesSubtree ==
    (/\ op.name = "bookmark_rm"
     /\ res.err # "PushWithoutUrl"
     /\ op.under.kind \in {"Id", "Folder"}
     /\ ~op.dry_run
     /\ resolved.some) =>
        LET old == ItemsAt(loaded, resolved.ref)
            k == RankOf(loaded, ResolvedPos)
            n == SubtreeSize(ItemAt(loaded, ResolvedPos))
        IN  /\ res = Ok
            /\ ItemsAt(xbel, resolved.ref) = Without(old, resolved.index + 1, 1)
            /\ FlatOf(xbel) = Without(FlatOf(loaded), k, n)
            /\ WithParents(xbel) = Without(WithParents(loaded), k, n)
            /\ (loaded = XBEL_BANK /\ op.under = UnderFolder(BankPath)) =>
                   FlatIds(xbel) = <<(<<"1">>), <<"5">>>>

\* C10 witness: the folder "bank" removed from the bank document by path.
C10_Witness ==
    /\ op.name = "bookmark_rm"
    /\ ~op.dry_run
    /\ loaded = XBEL_BANK
    /\ op.under = UnderFolder(BankPath)
    /\ resolved.some
    /\ res = Ok
    /\ Size(xbel) = Size(loaded) - 3

(***************************************************************************)
(* Failures and dry runs of the handlers.                                  *)
(***************************************************************************)
\* C11: bookmark_rm with the Root address returns a typed failure (a
\* variant of BookmarkRemoveError) to its caller, with the document in
\* memory equal to the loaded one and the file not written.
C11_RmRootIsTypedError ==
    (op.name = "bookmark_rm" /\ op.under = UnderRoot) =>
        /\ res.err \in BookmarkRemoveError
        /\ xbel = loaded
        /\ ~written

\* The sibling lists of a document, by reference.
SiblingLists(root) == [ref \in RefsBelow(root, <<>>) |-> ItemsAt(root, ref)]

\* A dry run of bookmark_rm whose Id or Path address resolved.
DryRunRm ==
    /\ op.name = "bookmark_rm"
    /\ op.dry_run
    /\ op.under.kind \in {"Id", "Folder"}
    /\ resolved.some

\* C12: a dry run of bookmark_rm with an Id or Path address leaves the
\* document in memory as loaded: the same sibling lists with the same
\* contents, the same item count and the same highest id.
C12_DryRunKeepsTree ==
    (/\ op.name = "bookmark_rm"
     /\ op.dry_run
     /\ op.under.kind \in {"Id", "Folder"}) =>
        /\ SiblingLists(xbel) = SiblingLists(loaded)
        /\ Size(xbel) = Size(loaded)
        /\ MaxIdOf(xbel) = MaxIdOf(loaded)

\* C12 witness: a dry run that resolved a folder with children.
C12_Witness ==
    /\ DryRunRm
    /\ IsFolder(ItemAt(loaded, ResolvedPos))
    /\ ItemAt(loaded, ResolvedPos).items # <<>>
    /\ Size(xbel) = Size(loaded)

\* C13: a dry run of bookmark_rm resolves and reports only: the file is
\* not written and git_push is not invoked.
C13_DryRunWritesNothing ==
    (op.name = "bookmark_rm" /\ op.dry_run) => (~written /\ ~pushed)

C14_WitnessNotFound ==
    /\ op.name = "bookmark_rm"
    /\ res.err = "XbelPathNotFound"
    /\ ~resolved.some
    /\ loaded # <<>>

(***************************************************************************)
(* Malformed ids.                                                          *)
(***************************************************************************)
\* Some item of the document has an id that str::parse::<u64> refuses.
HasMalformedId(root) ==
    \E p \in Positions(root) : ParseU64(get_id(ItemAt(root, p))) = ParseErr

\* The call made is one of those that read the ids of the document.
ReadsIds ==
    \/ op.name \in {"get_highest_id", "new_bookmark", "to_string"}
    \/ op.name = "get_items_mut" /\ op.path.kind = "Id"

\* C15: on a document with a malformed id, get_highest_id, new_bookmark
\* and to_string return a MalformedId failure to their caller, and no call
\* that reads ids, get_items_mut(Id) included, aborts the program.
C15_MalformedIdIsTypedError ==
    (ReadsIds /\ HasMalformedId(loaded)) =>
        /\ res.err # "unwrap"
        /\ op.name # "get_items_mut" => res.err = "MalformedId"

(***************************************************************************)
(* The iterators.                                                          *)
(***************************************************************************)
\* The items of a document in depth-first preorder, by their positions.
Preorder(root) ==
    [k \in 1..Cardinality(Positions(root)) |->
        ItemAt(root, CHOOSE p \in Positions(root) : RankOf(root, p) = k)]

\* The values next() returned before anything else than a value.
Yielded(returned) ==
    LET IsValue(x) == x # None IN SelectSeq(returned, IsValue)

\* next() has returned None at least once.
Exhausted(it) == NoneCount(it.returned) > 0

\* s is the beginning of t.
IsPrefix(s, t) == Len(s) <= Len(t) /\ SubSeq(t, 1, Len(s)) = s

IdsOf(seq) == [k \in 1..Len(seq) |-> seq[k].id]

BankIds == <<(<<"1">>), <<"2">>, <<"3">>, <<"4">>, <<"5">>>>

\* C16: XbelIterator yields the items in depth-first preorder: what it has
\* yielded so far is the beginning of the preorder sequence of the
\* document (a Folder before its children, its descendants before its
\* following sibling, siblings in list order), and all of it once next()
\* has returned None; on the bank document the ids are 1, 2, 3, 4, 5.
C16_FlatIsPreorder ==
    LET got == Yielded(iterator.returned)
    IN  /\ IsPrefix(got, Preorder(xbel))
        /\ Exhausted(iterator) => got = Preorder(xbel)
        /\ \A j \in 1..Len(got) :
               (IsFolder(got[j]) /\ j + Size(got[j].items) <= Len(got)) =>
                   SubSeq(got, j + 1, j + Size(got[j].items))
                       = Preorder(got[j].items)
        /\ (Exhausted(iterator) /\ xbel = XBEL_BANK) => IdsOf(got) = BankIds

\* C16 witness: the iterator has come to its end on the bank document,
\* which nests a folder in a folder.
C16_Witness ==
    /\ xbel = XBEL_BANK
    /\ Exhausted(iterator)
    /\ Len(Yielded(iterator.returned)) = 5

\* What the nesting traversal is to yield on a sibling list: each item,
\* and for a Folder its children's traversal and then the End of its id.
RECURSIVE NestingOf(_)
NestingOf(items) ==
    IF items = <<>> THEN <<>>
    ELSE LET x == Head(items)
         IN  <<Item(x)>>
             \o (IF IsFolder(x) THEN NestingOf(x.items) \o <<End(x.id)>>
                 ELSE <<>>)
             \o NestingOf(Tail(items))

\* Number of folders of a sibling list, descendants included.
RECURSIVE FolderCount(_)
FolderCount(items) ==
    IF items = <<>> THEN 0
    ELSE (IF IsFolder(Head(items)) THEN 1 + FolderCount(Head(items).items)
          ELSE 0)
         + FolderCount(Tail(items))

IsEnd(x) == x.tag = "End"

\* C17: XbelNestingIterator yields for every Folder, an empty one too,
\* one End marker with the folder's id, right after the folder's last
\* descendant (right after the folder when it has no children) and before
\* its following sibling, inner folders closing first: after Item(f) come
\* the elements of f's children, as many as its descendants and the
\* folders among them, then End(f.id); there are as many End markers as
\* folders; on the bank document the output is Item 1, Item 2, Item 3,
\* Item 4, End 2, Item 5, End 1.
C17_EndAfterLastDescendant ==
    LET got == Yielded(nesting.returned)
    IN  /\ IsPrefix(got, NestingOf(xbel))
        /\ Exhausted(nesting) =>
              /\ got = NestingOf(xbel)
              /\ Len(SelectSeq(got, IsEnd)) = FolderCount(xbel)
              /\ \A k \in 1..Len(got) :
                     (~IsEnd(got[k]) /\ IsFolder(got[k].item)) =>
                         LET f == got[k].item
                             n == Size(f.items) + FolderCount(f.items)
                         IN  /\ k + n + 1 <= Len(got)
                             /\ got[k + n + 1] = End(f.id)
                             /\ SubSeq(got, k + 1, k + n) = NestingOf(f.items)
        /\ (Exhausted(nesting) /\ xbel = XBEL_BANK) =>
              /\ Len(got) = 7
              /\ got[5] = End(<<"2">>)
              /\ got[7] = End(<<"1">>)
              /\ \A k \in {1, 2, 3, 4, 6} : ~IsEnd(got[k])

\* C17 witness: the nesting iterator has come to its end on a document
\* with a folder that has no children.
C17_Witness ==
    /\ Exhausted(nesting)
    /\ \E p \in Positions(xbel) :
           IsFolder(ItemAt(xbel, p)) /\ ItemAt(xbel, p).items = <<>>
    /\ Len(SelectSeq(Yielded(nesting.returned), IsEnd)) = FolderCount(xbel)

\* The items of the output of the nesting iterator, End markers dropped.
ItemsOnly(got) ==
    LET IsItem(x) == ~IsEnd(x)
        kept == SelectSeq(got, IsItem)
    IN  [k \in 1..Len(kept) |-> kept[k].item]

\* C18: once both iterators have come to their end, the output of
\* XbelNestingIterator without its End markers is the output of
\* XbelIterator, item for item, and the highest id folded over either is
\* get_highest_id.
C18_NestingWithoutEndsIsFlat ==
    (Exhausted(iterator) /\ Exhausted(nesting)) =>
        LET flat == Yielded(iterator.returned)
            nest == ItemsOnly(Yielded(nesting.returned))
        IN  /\ nest = flat
            /\ Fold(0, nest) = get_highest_id(xbel)
            /\ Fold(0, flat) = get_highest_id(xbel)

\* C18 witness: both iterators at their end on a document with a folder
\* that has children.
C18_Witness ==
    /\ Exhausted(iterator)
    /\ Exhausted(nesting)
    /\ \E p \in Positions(xbel) :
           IsFolder(ItemAt(xbel, p)) /\ ItemAt(xbel, p).items # <<>>
    /\ Len(Yielded(nesting.returned)) > Len(Yielded(iterator.returned))

\* Every value of returned after the first None is None.
NoneForGood(returned) ==
    \A j, k \in 1..Len(returned) :
        (j < k /\ returned[j] = None) => returned[k] = None

\* C19: on a document of N items, F of them folders, XbelIterator yields
\* N values and XbelNestingIterator N + F: call N + 1 (N + F + 1) of
\* next() returns None, and so does every call after it.
C19_IteratorsTerminate ==
    LET n == Size(xbel)
        f == FolderCount(xbel)
    IN  /\ NoneForGood(iterator.returned)
        /\ NoneForGood(nesting.returned)
        /\ Len(Yielded(iterator.returned)) <= n
        /\ Len(Yielded(nesting.returned)) <= n + f
        /\ Len(iterator.returned) > n => iterator.returned[n + 1] = None
        /\ Len(nesting.returned) > n + f => nesting.returned[n + f + 1] = None
        /\ Exhausted(iterator) => Len(Yielded(iterator.returned)) = n
        /\ Exhausted(nesting) => Len(Yielded(nesting.returned)) = n + f

\* C19 witness: both iterators called again after their first None, on a
\* document with folders.
C19_Witness ==
    /\ NoneCount(iterator.returned) >= 2
    /\ NoneCount(nesting.returned) >= 2
    /\ FolderCount(xbel) >= 2
    /\ Len(Yielded(nesting.returned)) = Size(xbel) + FolderCount(xbel)

(***************************************************************************)
(* The highestId comment.                                                  *)
(***************************************************************************)
\* The places of the Comment events in the output of to_string.
CommentsOf(text) == {k \in 1..Len(text) : text[k].ev = "Comment"}

\* The number between the colons of the comment at place k.
HighestIdOf(text, k) == ParseU64(text[k].text[2])

\* C20: the output of to_string, written to the file or returned, has one
\* highestId comment, right after the xbel start tag and before every
\* folder and bookmark element, and its number is the highest id of the
\* tree as it is after the adds and removes made so far (0 when the tree
\* is empty).
C20_CommentIsCurrentHighestId ==
    buffer # <<>> =>
        /\ CommentsOf(buffer) = {3}
        /\ buffer[2] = PushStr(XBEL_START)
        /\ buffer[3].text = HighestIdComment(MaxIdOf(xbel))
        /\ HighestIdOf(buffer, 3) = MaxIdOf(xbel)
        /\ \A k \in 1..Len(buffer) : buffer[k].ev = "Start" => k > 3
        /\ xbel = <<>> => HighestIdOf(buffer, 3) = 0

\* C20 witness: the second command on a file removed the item with the
\* highest id, and the comment written carries the lower number.
C20_Witness ==
    /\ runs >= 1
    /\ op.name = "bookmark_rm"
    /\ written
    /\ xbel # <<>>
    /\ MaxIdOf(xbel) < MaxIdOf(loaded)
    /\ HighestIdOf(buffer, 3) = MaxIdOf(xbel)

(***************************************************************************)
(* The elements written by to_string.                                      *)
(***************************************************************************)
\* The value of the attribute of a Start event, "" when it has none of
\* that name.
Attr(event, name) ==
    LET at == {k \in 1..Len(event.attributes) : event.attributes[k][1] = name}
    IN  IF at = {} THEN <<>> ELSE event.attributes[CHOOSE k \in at : TRUE][2]

\* The event is the start tag of the named element.
IsStart(event, name) == event.ev = "Start" /\ event.name = name

\* What the nesting traversal says of an item or an End marker: kind, id,
\* title and href, without children.
EntryOf(x) ==
    IF IsEnd(x) THEN x ELSE [tag |-> "Item", item |-> Shallow(x.item)]

\* The opens and closes of the folder and bookmark elements among the
\* events, in order: an open as the item its tag, attributes and title
\* child describe, a folder's close as the End of the id of the folder
\* open at that point.
RECURSIVE OpensAndCloses(_, _)
OpensAndCloses(events, open) ==
    IF events = <<>> THEN <<>>
    ELSE LET e == Head(events)
         IN  IF IsStart(e, "folder")
             THEN <<[tag |-> "Item",
                     item |-> [kind |-> "Folder", id |-> Attr(e, "id"),
                               title |-> events[3].text]]>>
                  \o OpensAndCloses(Tail(events), <<Attr(e, "id")>> \o open)
             ELSE IF IsStart(e, "bookmark")
             THEN <<[tag |-> "Item",
                     item |-> Bookmark(Attr(e, "id"), Attr(e, "href"),
                                       events[3].text)]>>
                  \o OpensAndCloses(Tail(events), open)
             ELSE IF e = EventEnd("folder")
             THEN <<End(Head(open))>> \o OpensAndCloses(Tail(events), Tail(open))
             ELSE OpensAndCloses(Tail(events), open)

\* The title child: start tag, text, end tag.
IsTitleAt(events, k) ==
    /\ k + 2 <= Len(events)
    /\ events[k] = EventStart("title", <<>>)
    /\ events[k + 1].ev = "Text"
    /\ events[k + 2] = EventEnd("title")

\* C21: the element events of to_string follow the nesting traversal one
\* for one: the opens and closes of the folder and bookmark elements are
\* the Item and End entries of XbelNestingIterator on the same document,
\* with the same kinds, ids, titles and hrefs; a folder element has the
\* attribute id and starts with its title child; a bookmark element has
\* the attributes href and id and holds its title child and nothing else.
C21_ElementsFollowNesting ==
    (op.name = "to_string" /\ Exhausted(nesting)) =>
        LET got == Yielded(nesting.returned)
        IN  /\ OpensAndCloses(buffer, <<>>) = [k \in 1..Len(got) |-> EntryOf(got[k])]
            /\ \A k \in 1..Len(buffer) :
                   /\ IsStart(buffer[k], "folder") =>
                          /\ Len(buffer[k].attributes) = 1
                          /\ buffer[k].attributes[1][1] = "id"
                          /\ IsTitleAt(buffer, k + 1)
                   /\ IsStart(buffer[k], "bookmark") =>
                          /\ Len(buffer[k].attributes) = 2
                          /\ buffer[k].attributes[1][1] = "href"
                          /\ buffer[k].attributes[2][1] = "id"
                          /\ IsTitleAt(buffer, k + 1)
                          /\ buffer[k + 4] = EventEnd("bookmark")

\* C21 witness: to_string and the whole nesting traversal on a document
\* with a bookmark after a folder that has children.
C21_Witness ==
    /\ op.name = "to_string"
    /\ Exhausted(nesting)
    /\ \E p \in Positions(xbel) :
           /\ IsFolder(ItemAt(xbel, p))
           /\ ItemAt(xbel, p).items # <<>>
           /\ p[2] + 1 < Len(ItemsAt(xbel, p[1]))
    /\ Len(OpensAndCloses(buffer, <<>>)) = Size(xbel) + FolderCount(xbel)

(***************************************************************************)
(* Round trip.                                                             *)
(***************************************************************************)
\* C22: the file written by a command, read back, gives the document the
\* command had in memory: the same version and the same items (ids,
\* titles, hrefs, nesting and sibling order).
C22_RoundTrip ==
    op.name = "from_file" =>
        /\ parsed.version = version
        /\ parsed.items = xbel

\* The items alone come back as they were.
C22_ItemsComeBack ==
    op.name = "from_file" => parsed.items = xbel

(***************************************************************************)
(* Address strings: Under::from_str on its own.                            *)
(***************************************************************************)
\* Characters of the address strings: digits, a letter, the path
\* separator, the sign and the "=" of the placement prefixes.
AddressChars == {"0", "1", "a", "/", "+", "="}

\* What follows the prefix: every string of at most MaxAddrLen characters.
AddressBodies == UNION {[1..n -> AddressChars] : n \in 0..MaxAddrLen}

\* What an address string may start with: nothing, a placement prefix, or
\* the word "root".
AddressPrefixes ==
    {<<>>, PLACEMENT_AFTER_PREFIX, PLACEMENT_BEFORE_PREFIX,
     PLACEMENT_APPEND_PREFIX, PLACEMENT_PREPEND_PREFIX, RootString}

AddressStrings == {p \o b : p \in AddressPrefixes, b \in AddressBodies}

InitUnder ==
    /\ file = XBEL_EMPTY
    /\ loaded = file
    /\ xbel = file
    /\ op = [name |-> "none"]
    /\ resolved = None
    /\ bookmark = None
    /\ res = Ok
    /\ written = FALSE
    /\ pushed = FALSE
    /\ buffer = <<>>
    /\ iterator = IteratorNew
    /\ nesting = IteratorNew
    /\ runs = 0
    /\ version = XBEL_VERSION
    /\ parsed = None

\* The command line parser applying Under::from_str to the value of
\* --under.
UnderParse(s) ==
    /\ op.name = "none"
    /\ op' = [name |-> "from_str", s |-> s, under |-> UnderFromStr(s)]
    /\ UNCHANGED <<file, loaded, xbel, resolved, bookmark, res, written,
                   pushed, buffer, iterator, nesting, runs, version, parsed>>

NextUnder == \E s \in AddressStrings : UnderParse(s)

SpecUnder == InitUnder /\ [][NextUnder]_vars

\* An unsigned integer as text: decimal digits, with or without a "+".
IsUnsignedText(t) ==
    \/ /\ t # <<>>
       /\ \A k \in 1..Len(t) : t[k] \in {"0", "1"}
    \/ /\ Len(t) > 1
       /\ t[1] = "+"
       /\ \A k \in 2..Len(t) : t[k] \in {"0", "1"}

\* The number an unsigned integer text denotes.
RECURSIVE UnsignedValue(_)
UnsignedValue(t) ==
    IF t = <<>> \/ t = <<"+">> THEN 0
    ELSE UnsignedValue(SubSeq(t, 1, Len(t) - 1)) * 10
             + (IF t[Len(t)] = "1" THEN 1 ELSE 0)

\* The placement each prefix stands for.
PlacementOf(p) ==
    CASE p = PLACEMENT_AFTER_PREFIX -> "After"
      [] p = PLACEMENT_BEFORE_PREFIX -> "Before"
      [] p = PLACEMENT_APPEND_PREFIX -> "InFolderAppend"
      [] p = PLACEMENT_PREPEND_PREFIX -> "InFolderPrepend"
      [] p = <<>> -> "InFolderAppend"

\* The ways of reading s as an optional placement prefix and an unsigned
\* integer.
IntegerReadings(s) ==
    {p \in AddressPrefixes \ {RootString} :
        /\ HasPrefix(s, p)
        /\ IsUnsignedText(SubSeq(s, Len(p) + 1, Len(s)))}

\* C23: Under::from_str maps every string to one address: "root" to Root,
\* an unsigned integer with or without one of the four placement prefixes
\* to Id with the placement of the prefix (InFolderAppend without one), and
\* every other string, a prefix followed by a non-integer included, to the
\* title path of the whole string.
C23_FromStrIsTotal ==
    op.name = "from_str" =>
        LET s == op.s
            under == op.under
        IN  /\ under.kind \in {"Root", "Id", "Folder"}
            /\ s = RootString => under = UnderRoot
            /\ \A p \in IntegerReadings(s) :
                   under = UnderId(UnsignedValue(SubSeq(s, Len(p) + 1, Len(s))),
                                   PlacementOf(p))
            /\ (s # RootString /\ IntegerReadings(s) = {}) =>
                   under = UnderFolder(s)

\* C23 witness: a placement prefix followed by a non-integer was parsed.
C23_Witness ==
    /\ op.name = "from_str"
    /\ op.s = PLACEMENT_AFTER_PREFIX \o <<"a">>
    /\ op.under.kind = "Folder"

(***************************************************************************)
(* One command with every outcome of the environment: --disable-push given *)
(* or not, a repository url or none, the write and the push succeeding or  *)
(* failing.                                                                *)
(***************************************************************************)
\* Option<bool> of --disable-push.
DisablePushValues == {"none", "true", "false"}

\* The tests' documents and the one-item documents, malformed id included.
PushDocuments ==
    SeqDocuments \cup ListsOf(1, {<<"1">>, MalformedId}, {DefaultTitle})

PushAddArgs ==
    [url : {NewUrl}, title : {NewTitle}, under : Unders,
     disable_push : DisablePushValues]

PushRemoveArgs ==
    [under : RmUnders, dry_run : BOOLEAN, disable_push : DisablePushValues]

InitPush ==
    /\ file \in PushDocuments
    /\ loaded = file
    /\ xbel = file
    /\ op = [name |-> "none"]
    /\ resolved = None
    /\ bookmark = None
    /\ res = Ok
    /\ written = FALSE
    /\ pushed = FALSE
    /\ buffer = <<>>
    /\ iterator = IteratorNew
    /\ nesting = IteratorNew
    /\ runs = 0
    /\ version = XBEL_VERSION
    /\ parsed = None

NextPush ==
    \/ \E add_args \in PushAddArgs, has_url, write_ok, push_ok \in BOOLEAN :
           BookmarkAdd(add_args, has_url, write_ok, push_ok)
    \/ \E rm_args \in PushRemoveArgs, has_url, write_ok, push_ok \in BOOLEAN :
           BookmarkRm(rm_args, has_url, write_ok, push_ok)

SpecPush == InitPush /\ [][NextPush]_vars

\* The command is a run of bookmark_add or bookmark_rm.
IsCommand == op.name \in {"bookmark_add", "bookmark_rm"}

\* C24: git_push is called only after the file was written completely and
\* with success, and only when pushing is not disabled; a failed write is
\* never followed by a push.
C24_PushOnlyAfterWrite ==
    IsCommand =>
        /\ pushed =>
               /\ op.disable_push = "false"
               /\ written
               /\ file = xbel
               /\ buffer = to_string(xbel)
        /\ res.err \in {"XbelReadError", "unwrap"} => ~pushed
        /\ file = Truncated => ~pushed

\* C24 witness: an add wrote the file and pushed it.
C24_Witness ==
    /\ op.name = "bookmark_add"
    /\ op.disable_push = "false"
    /\ written
    /\ pushed
    /\ res = Ok

\* C25: with --disable-push=false and no repository url, bookmark_add and
\* bookmark_rm fail with PushWithoutUrl, and have then not loaded the
\* document, built a bookmark, resolved the address, changed the tree or
\* written the file.
C25_PushWithoutUrlFirst ==
    (IsCommand /\ op.disable_push = "false" /\ ~op.has_url) =>
        /\ res = Err("PushWithoutUrl", <<>>)
        /\ resolved = None
        /\ bookmark = None
        /\ xbel = file
        /\ loaded = file
        /\ file \in PushDocuments
        /\ buffer = <<>>
        /\ ~written
        /\ ~pushed

\* C25 witness: an add that would have found its folder, and would have
\* been pushed, stopped for want of a url.
C25_Witness ==
    /\ op.name = "bookmark_add"
    /\ op.disable_push = "false"
    /\ ~op.has_url
    /\ res.err = "PushWithoutUrl"
    /\ get_items_mut(file, op.path).some

(***************************************************************************)
(* The command line merged with the config file: override_cli_with.        *)
(***************************************************************************)
\* Option::Some of a value of the command line or of the config file.
SomeValue(v) == [some |-> TRUE, value |-> v]

CLI_REPOSITORY_NAME_DEFAULT == "bookmarks"

CLI_REPOSITORY_SSH_KEY_DEFAULT == "HOME/.ssh/id_ed25519"

\* A url: whether it has a host (Url::set_username fails without one) and
\* its username.
Url(has_host, username) == [has_host |-> has_host, username |-> username]

\* Commands that carry --disable-push, and one that does not.
CliCommands ==
    [kind : {"Add", "Rm"}, disable_push : DisablePushValues]
    \cup {[kind |-> "Print"]}

Clis ==
    [repository_token : {None, SomeValue(""), SomeValue("t")},
     repository_ssh_key : {CLI_REPOSITORY_SSH_KEY_DEFAULT, "k"},
     repository_url : {None, SomeValue(Url(TRUE, "")), SomeValue(Url(FALSE, ""))},
     repository_name : {CLI_REPOSITORY_NAME_DEFAULT, "n"},
     command : CliCommands]

\* The [git] table of the config file.
Gits ==
    [enable : BOOLEAN,
     repository_token : {None, SomeValue("ct")},
     repository_ssh_key : {None, SomeValue(""), SomeValue("ck")},
     repository_url : {None, SomeValue(Url(TRUE, "cu"))},
     repository_name : {None, SomeValue("cn")},
     disable_push : DisablePushValues]

FloccusCliConfigs == [git : Gits]

\* The match on cli.command with a config value that wins over the command
\* line.
OverrideCommandConfigFirst(command, config) ==
    IF config.git.disable_push # "none" /\ command.kind \in {"Add", "Rm"}
    THEN [command EXCEPT !.disable_push = config.git.disable_push]
    ELSE command

\* The match on cli.command at the end of override_cli_with.
OverrideCommand(command, config) ==
    IF config.git.disable_push # "none"
    THEN CASE command.kind = "Add" ->
                  IF command.disable_push = "none"
                  THEN [command EXCEPT !.disable_push = config.git.disable_push]
                  ELSE command
           [] command.kind = "Rm" ->
                  IF command.disable_push = "none"
                  THEN [command EXCEPT !.disable_push = config.git.disable_push]
                  ELSE command
           [] OTHER -> command
    ELSE command

\* override_cli_with: the Cli it leaves behind and its result.
override_cli_with(cli, config) ==
    IF ~config.git.enable THEN [cli |-> cli, res |-> Ok]
    ELSE LET repository_token ==
                 IF cli.repository_token = None
                 THEN config.git.repository_token
                 ELSE cli.repository_token
             repository_ssh_key ==
                 IF /\ cli.repository_ssh_key = CLI_REPOSITORY_SSH_KEY_DEFAULT
                    /\ config.git.repository_ssh_key.some
                    /\ config.git.repository_ssh_key.value # ""
                 THEN config.git.repository_ssh_key.value
                 ELSE cli.repository_ssh_key
             repository_url ==
                 IF cli.repository_url = None
                 THEN config.git.repository_url
                 ELSE cli.repository_url
             merges ==
                 /\ repository_token.some
                 /\ repository_url.some
                 /\ repository_token.value # ""
             merged ==
                 IF merges
                 THEN SomeValue([repository_url.value EXCEPT
                                     !.username = repository_token.value])
                 ELSE repository_url
             repository_name ==
                 IF /\ cli.repository_name = CLI_REPOSITORY_NAME_DEFAULT
                    /\ config.git.repository_name.some
                 THEN config.git.repository_name.value
                 ELSE cli.repository_name
         IN  IF merges /\ ~repository_url.value.has_host
             THEN [cli |-> [cli EXCEPT
                               !.repository_token = repository_token,
                               !.repository_ssh_key = repository_ssh_key,
                               !.repository_url = repository_url],
                   res |-> Err("UrlSetUsername", <<>>)]
             ELSE [cli |-> [repository_token |-> repository_token,
                            repository_ssh_key |-> repository_ssh_key,
                            repository_url |-> merged,
                            repository_name |-> repository_name,
                            command |-> OverrideCommand(cli.command, config)],
                   res |-> Ok]

\* parse_cli_and_override on a config file that was read.
OverrideCliWith(cli, config) ==
    /\ op.name = "none"
    /\ op' = [name |-> "override_cli_with", cli |-> cli, config |-> config,
              ret |-> override_cli_with(cli, config).cli]
    /\ res' = override_cli_with(cli, config).res
    /\ UNCHANGED <<file, loaded, xbel, resolved, bookmark, written, pushed,
                   buffer, iterator, nesting, runs, version, parsed>>

NextOverride ==
    /\ op.name = "none"
    /\ \E cli \in Clis, config \in FloccusCliConfigs :
           OverrideCliWith(cli, config)

SpecOverride == InitUnder /\ [][NextOverride]_vars

\* C26: override_cli_with never replaces a --disable-push value given on
\* the command line of add or rm; the config file's disable_push is taken
\* only when the command carries none; with git.enable false the Cli is
\* left exactly as it was.
C26_CommandLineWins ==
    op.name = "override_cli_with" =>
        /\ op.ret.command.kind = op.cli.command.kind
        /\ op.cli.command.kind \in {"Add", "Rm"} =>
               /\ op.cli.command.disable_push # "none" =>
                      op.ret.command.disable_push = op.cli.command.disable_push
               /\ op.ret.command.disable_push # op.cli.command.disable_push =>
                      /\ op.cli.command.disable_push = "none"
                      /\ op.ret.command.disable_push = op.config.git.disable_push
        /\ ~op.config.git.enable => op.ret = op.cli

\* C26 witness: the config file says disable_push = false and the command
\* line of rm says true, as in test_cli_override.
C26_Witness ==
    /\ op.name = "override_cli_with"
    /\ op.config.git.enable
    /\ op.config.git.disable_push = "false"
    /\ op.cli.command = [kind |-> "Rm", disable_push |-> "true"]
    /\ op.ret.command.disable_push = "true"
    /\ res = Ok

(***************************************************************************)
(* The frame of a successful add or remove.                                *)
(***************************************************************************)
\* Two documents that differ at most in the sibling list behind ref: on
\* the way down to it every list has the same length, the folder on the
\* way keeps its kind, id and title, and every other item of these lists
\* is the same with all that is below it.
SameOutside(old, new, ref) ==
    \A d \in 0..(Len(ref) - 1) :
        LET a == ItemsAt(old, SubSeq(ref, 1, d))
            b == ItemsAt(new, SubSeq(ref, 1, d))
        IN  /\ Len(a) = Len(b)
            /\ \A k \in 1..Len(a) :
                   IF k = ref[d + 1] + 1
                   THEN Shallow(a[k]) = Shallow(b[k])
                   ELSE a[k] = b[k]

\* A command that ended with success and was to change the document.
Succeeded ==
    /\ IsCommand
    /\ res = Ok
    /\ ~op.dry_run

\* C27: a successful add or remove (not a dry run) changes exactly one
\* sibling list: that list is the one before with the new bookmark put in
\* at one place, or with one item taken out, the other siblings in their
\* order and unaltered; every other sibling list of the tree is unchanged
\* and no item has its id, title or href altered; an add raises the number
\* of items by exactly 1.
C27_OneSiblingListChanges ==
    Succeeded =>
        \E ref \in RefsBelow(loaded, <<>>) :
            LET old == ItemsAt(loaded, ref)
            IN  /\ SameOutside(loaded, xbel, ref)
                /\ op.name = "bookmark_add" =>
                       /\ \E k \in 1..(Len(old) + 1) :
                              ItemsAt(xbel, ref) = Spliced(old, k, bookmark)
                       /\ Size(xbel) = Size(loaded) + 1
                /\ op.name = "bookmark_rm" =>
                       \E k \in 1..Len(old) :
                           ItemsAt(xbel, ref) = Without(old, k, 1)

\* C27 witness: the first of three siblings, two levels down, was removed
\* in a command that followed an add.
C27_Witness ==
    /\ Succeeded
    /\ op.name = "bookmark_rm"
    /\ runs > 0
    /\ resolved.some
    /\ Len(resolved.ref) = 2
    /\ resolved.index = 0
    /\ Len(ItemsAt(loaded, resolved.ref)) = 3

(***************************************************************************)
(* The result of get_items_mut as an index into a list.                    *)
(***************************************************************************)
\* C28: when get_items_mut returns (i, L) for an Id or a Path address, L is
\* a sibling list of the document, i < len(L), and L[i] is the matched
\* item: its id is the number of the address, or its title is the last
\* segment of the path; so items[i], insert(i), insert(i + 1) and remove(i)
\* of the handlers are within bounds.  During the resolution of a path the
\* segment index stays below the number of segments.
C28_ResolvedIsInBounds ==
    (Resolving /\ op.path.kind \in {"Id", "Path"}) =>
        /\ resolved.some =>
               /\ resolved.ref \in RefsBelow(loaded, <<>>)
               /\ resolved.index \in 0..(Len(ItemsAt(loaded, resolved.ref)) - 1)
               /\ op.path.kind = "Id" =>
                      ParseU64(get_id(ItemAt(loaded, ResolvedPos))) = op.path.id
               /\ op.path.kind = "Path" =>
                      get_title(ItemAt(loaded, ResolvedPos))
                          = PathSegments[Len(PathSegments)]
        /\ (op.name = "get_items_mut" /\ op.path.kind = "Path") =>
               \A k \in 1..Len(op.indexes) :
                   op.indexes[k] \in 0..(Len(PathSegments) - 1)

\* C28 witness: a path of two segments resolved to the last item of a list
\* of several, after the segment index went up.
C28_Witness ==
    /\ op.name = "get_items_mut"
    /\ op.path.kind = "Path"
    /\ Len(PathSegments) = 2
    /\ resolved.some
    /\ resolved.index > 0
    /\ resolved.index = Len(ItemsAt(loaded, resolved.ref)) - 1
    /\ op.indexes[Len(op.indexes)] = 1

(***************************************************************************)
(* Ids over a sequence of commands.                                        *)
(***************************************************************************)
\* The ids of a document, as numbers.
IdNumbers(root) == {ParseU64(get_id(ItemAt(root, p))) : p \in Positions(root)}

\* No two items of a document have the same id.
DistinctIds(root) == Cardinality(IdNumbers(root)) = Cardinality(Positions(root))

PrintItemKeepsIndent(print, item) ==
    CASE item.tag = "End" -> print
      [] item.tag = "Item" /\ IsFolder(item.item) ->
             [print EXCEPT
                 !.lines = Append(@, [indent |-> print.indent_spaces,
                                      id |-> item.item.id,
                                      title |-> item.item.title]),
                 !.indent_spaces = @ + 2]
      [] OTHER ->
             [print EXCEPT
                 !.lines = Append(@, [indent |-> print.indent_spaces,
                                      id |-> item.item.id,
                                      title |-> item.item.title,
                                      href |-> item.item.href])]

\* The body of the for loop of bookmark_print: the match on the item.  The
\* counter is a usize: taking 2 from less than 2 is an overflow.
PrintItem(print, item) ==
    CASE item.tag = "End" ->
             IF print.indent_spaces < 2
             THEN [print EXCEPT !.underflow = TRUE]
             ELSE [print EXCEPT !.indent_spaces = @ - 2]
      [] item.tag = "Item" /\ IsFolder(item.item) ->
             [print EXCEPT
                 !.lines = Append(@, [indent |-> print.indent_spaces,
                                      id |-> item.item.id,
                                      title |-> item.item.title]),
                 !.indent_spaces = @ + 2]
      [] OTHER ->
             [print EXCEPT
                 !.lines = Append(@, [indent |-> print.indent_spaces,
                                      id |-> item.item.id,
                                      title |-> item.item.title,
                                      href |-> item.item.href])]

\* bookmark_print before its loop: let mut indent_spaces = 0.
PrintNew ==
    [name |-> "bookmark_print", indent_spaces |-> 0, lines |-> <<>>,
     underflow |-> FALSE, done |-> FALSE]

\* One turn of the for loop of bookmark_print: next() on the nesting
\* iterator, then the match; the loop ends when next() returns None.
BookmarkPrint ==
    LET print == IF op.name = "none" THEN PrintNew ELSE op
        it == XbelNestingIteratorNext(nesting, xbel)
        item == it.returned[Len(it.returned)]
    IN  /\ op.name \in {"none", "bookmark_print"}
        /\ ~print.done
        /\ ~print.underflow
        /\ nesting' = it
        /\ op' = IF item = None THEN [print EXCEPT !.done = TRUE]
                 ELSE PrintItem(print, item)
        /\ UNCHANGED <<file, loaded, xbel, resolved, bookmark, res, written,
                       pushed, buffer, iterator, runs, version, parsed>>

NextPrint == BookmarkPrint

SpecPrint == Init /\ [][NextPrint]_vars

\* How many elements of a sequence of XbelItemOrEnd are End markers.
EndsIn(got) == Cardinality({k \in 1..Len(got) : IsEnd(got[k])})

\* How many are Folder items.
FoldersIn(got) ==
    Cardinality({k \in 1..Len(got) : ~IsEnd(got[k]) /\ IsFolder(got[k].item)})

\* The position of the k-th item in flat depth-first order.
PositionOfRank(root, k) == CHOOSE p \in Positions(root) : RankOf(root, p) = k

\* C30: in every beginning of the output of XbelNestingIterator there are
\* at most as many End markers as Folder items, and in the whole output as
\* many; the indentation of bookmark_print (2 more after a Folder, 2 less
\* at an End) never goes below zero, every item is printed with twice its
\* nesting depth, and the counter is zero when the traversal has ended.
C30_IndentIsTwiceDepth ==
    LET got == Yielded(nesting.returned)
    IN  /\ EndsIn(got) <= FoldersIn(got)
        /\ Exhausted(nesting) => EndsIn(got) = FoldersIn(got)
        /\ op.name = "bookmark_print" =>
               /\ ~op.underflow
               /\ op.indent_spaces = 2 * (FoldersIn(got) - EndsIn(got))
               /\ \A k \in 1..Len(op.lines) :
                      /\ op.lines[k].indent
                             = 2 * Len(PositionOfRank(xbel, k)[1])
                      /\ op.lines[k].id = ItemAt(xbel, PositionOfRank(xbel, k)).id
               /\ op.done =>
                      /\ op.indent_spaces = 0
                      /\ Len(op.lines) = Size(xbel)

\* C30 witness: the whole of a document printed, in which a bookmark comes
\* after a folder that holds a folder.
C30_Witness ==
    /\ op.name = "bookmark_print"
    /\ op.done
    /\ Len(op.lines) = 3
    /\ op.lines[2].indent = 2
    /\ op.lines[3].indent = 0
    /\ IsFolder(xbel[1])
    /\ IsFolder(xbel[1].items[1])

====
